---- MODULE Spec2Model ----
(***************************************************************************)
(* Visualizae canvas editor: the layer store (useCanvasLayers), the canvas *)
(* interaction engine (useCanvasInteraction), the generation orchestrator  *)
(* (useCanvasGeneration), the upload hook and the App-level handlers, as   *)
(* one state machine.  One action per event handler; an asynchronous       *)
(* handler is split at its awaits.  Every handler runs against the state   *)
(* rendered after the previous event (React re-renders between events).    *)
(*                                                                         *)
(* JavaScript numbers are modelled as exact rationals <<n, d>>, d > 0, in  *)
(* lowest terms, so that equal numbers are equal values.                   *)
(***************************************************************************)
EXTENDS Integers, Sequences, FiniteSets, TLC

\* ------------------------------------------------------------------------
\* Rational arithmetic
\* ------------------------------------------------------------------------
Abs(n) == IF n < 0 THEN -n ELSE n

RECURSIVE GCD(_, _)
GCD(a, b) == IF b = 0 THEN a ELSE GCD(b, a % b)

Norm(n, d) ==
    LET g == GCD(Abs(n), Abs(d))
        s == IF d < 0 THEN -1 ELSE 1
    IN  IF n = 0 THEN <<0, 1>> ELSE <<(s * n) \div g, (s * d) \div g>>

R(n) == <<n, 1>>
Frac(n, d) == Norm(n, d)
RAdd(a, b) == Norm(a[1] * b[2] + b[1] * a[2], a[2] * b[2])
RSub(a, b) == Norm(a[1] * b[2] - b[1] * a[2], a[2] * b[2])
RMul(a, b) == Norm(a[1] * b[1], a[2] * b[2])
RDiv(a, b) == Norm(a[1] * b[2], a[2] * b[1])
RLt(a, b) == a[1] * b[2] < b[1] * a[2]
RLe(a, b) == a[1] * b[2] <= b[1] * a[2]
RGt(a, b) == RLt(b, a)
RGe(a, b) == RLe(b, a)
RAbs(a) == <<Abs(a[1]), a[2]>>
RMin(a, b) == IF RLt(b, a) THEN b ELSE a
RMax(a, b) == IF RLt(a, b) THEN b ELSE a

\* null / undefined: the empty tuple (comparable with tuples and records)
NULL == <<>>

SetMax(S) == CHOOSE m \in S : \A n \in S : n <= m
SetMin(S) == CHOOSE m \in S : \A n \in S : m <= n

\* ------------------------------------------------------------------------
\* Program constants
\* ------------------------------------------------------------------------
CANVAS_SIZE == 4000
INITIAL_VIEWPORT_WIDTH == 2500
\* the zoom clamp [0.05, 5] of handleWheel, handleTouchMove and initialZoom
MinZoom == Frac(5, 100)
MaxZoom == R(5)
\* handleFitScreen
FitPadding == 100
FitMaxZoom == Frac(3, 2)
\* handleEnd: rectangles under 10 world units are discarded
MinSelection == 10
\* handleMove: axis-lock threshold
DragThreshold == 5

\* ------------------------------------------------------------------------
\* Environment: the browser window, the canvas element, the inputs
\* ------------------------------------------------------------------------
\* canvasRef.current.getBoundingClientRect(): the canvas fills its wrapper
CanvasRect == [left |-> 0, top |-> 0]

\* window.innerWidth x window.innerHeight
WindowSizes == {[innerWidth |-> 1250, innerHeight |-> 1000]}

\* availableResolutions (MODEL_2_RESOLUTIONS is not part of the sources; the
\* hook takes it as a parameter): lists of {w, h, ratio} entries
Res1x1 == [w |-> 1024, h |-> 1024, ratio |-> R(1)]
Res16x9 == [w |-> 1344, h |-> 768, ratio |-> Frac(178, 100)]
Res9x16 == [w |-> 768, h |-> 1344, ratio |-> Frac(56, 100)]
ResolutionLists ==
    { <<Res1x1, Res16x9>>, <<Res16x9, Res9x16, Res1x1>>, <<>> }

\* Math.exp(-deltaY * 0.001) for the wheel deltas the model feeds, to the
\* nearest simple fraction; exp underflows to 0 for a very large delta
WheelDeltas == {-6908, -693, 693, 1000000}
ExpNeg(deltaY) ==
    CASE deltaY = -6908 -> R(1000)
      [] deltaY = -693 -> R(2)
      [] deltaY = 693 -> Frac(1, 2)
      [] deltaY = 1000000 -> R(0)

\* Math.sqrt on the squared touch distances the model feeds (floor of the root;
\* the touch pairs are chosen with whole distances)
Sqrt(n) == CHOOSE r \in 0..(IF n < 4096 THEN n ELSE 4096) : r * r <= n /\ (r + 1) * (r + 1) > n

Tools == {"select", "eraser", "move", "hand", "decor"}
Models == {"NANO_BANANA_2", "KLING_PRO"}

VARIABLES
    window,              \* window.innerWidth / innerHeight
    availableResolutions,\* the resolution list handed to the interaction hook
    selectedTool,        \* CanvasMode state
    layers,              \* App state: the layer list, index 1 = topmost
    redoStack,           \* useCanvasLayers state
    selectedLayerIds,    \* useCanvasLayers state (a set: order is not modelled)
    selection,           \* useCanvasInteraction state: NULL or [x, y, w, h]
    zoom,                \* useCanvasInteraction state
    canvasOffset,        \* useCanvasInteraction state: [x, y]
    refs,                \* the useRef cells of useCanvasInteraction
    draggingLayerId,     \* useCanvasInteraction state
    layerDragOffset,     \* useCanvasInteraction state
    isGenerating,        \* CanvasMode state isGeneratingState
    generatingEffect,    \* CanvasMode state generatingEffectState
    gens,                \* the invocations of triggerGeneration / handleUpscale4K in flight
    prompt,              \* CanvasMode state
    variationCount,      \* CanvasMode state
    activeModel,         \* CanvasMode state
    referenceImages,     \* useCanvasUpload state (number of images)
    lastAlert,           \* the message the last step showed with alert()
    moves,               \* history: pointer-move and wheel events handled so far
    uploads,             \* image uploads whose file read has not completed
    nextId,              \* the next fresh layer id (Date.now())
    pointer,             \* "up", "mouse" (a button is down), "touch1", "touch2"
    gesture,             \* history: what the current pointer gesture began as
    lastOp,              \* history: the handler that ran last
    hist,                \* history: what the last handler saw before it ran
    ratioArg,            \* the argument of the last call of getClosestAspectRatio
    ratioKey,            \* what that call returned ("none" before any call)
    scenes,              \* App state: the Studio scene list
    sceneGens,           \* the invocations of SceneRow.handleGenerate in flight
    nextSceneId,         \* the next fresh scene id (Date.now())
    nextVideo,           \* the next fresh video URL a remote call returns
    studioHist,          \* history: the scene generation that just completed
    isExporting,         \* useStudioExport state
    exportStatus,        \* useStudioExport state
    exportRun,           \* the invocation of handleExportFullMovie in flight
    downloads,           \* history: the movie files downloaded so far
    played,              \* history: the scenes (ids) the export has played
    refReads,            \* reference / pasted image file reads that have not completed
    projectHistory,      \* localStorage visualizae_project_history: the stored list
    projectLayers,       \* the project ids that have a visualizae_project_<id> item
    loads,               \* the calls of loadProject that await their downloads
    clock,               \* Date.now()
    nextProjectId,       \* the next crypto.randomUUID()
    storeHist,           \* history: what the last saveProject evicted
    userDoc,             \* Firestore users/<uid>: <<>> or <<credits>>
    authEmail,           \* request.auth.token.email of the one user
    calls,               \* the callable-function invocations of that user
    drawingPoints,       \* useDecorZones state: the vertices being drawn
    cursorPos,           \* useDecorZones state: NULL or the preview point
    zoneCount,           \* useDecorZones state
    decorLayers,         \* history: the polygons handed to onLayerCreated
    user,                \* App state: TRUE when a user is logged in
    isLoadingProjectRef, \* App ref isLoadingProjectRef.current
    autoSaveTimer,       \* TRUE while the timeout of autoSaveTimerRef is pending
    currentProjectId,    \* App state: NULL or <<project id>>
    effectDeps,          \* the dependencies the autosave effect last ran with
    savedContent         \* history: the layers and scenes last loaded or saved

canvasVars == <<window, availableResolutions, selectedTool, layers, redoStack,
          selectedLayerIds, selection, zoom, canvasOffset, refs,
          draggingLayerId, layerDragOffset, isGenerating, generatingEffect,
          gens, prompt, variationCount, activeModel, referenceImages,
          moves, uploads, nextId, pointer, gesture>>
ratioVars == <<ratioArg, ratioKey>>
sceneVars == <<scenes, sceneGens, nextSceneId, nextVideo, studioHist>>
exportVars == <<isExporting, exportStatus, exportRun, downloads, played>>
studioVars == <<ratioVars, sceneVars, exportVars>>
projectVars == <<projectHistory, projectLayers, loads, clock, nextProjectId, storeHist>>
serverVars == <<userDoc, authEmail, calls>>
decorVars == <<drawingPoints, cursorPos, zoneCount, decorLayers>>
autosaveVars == <<user, isLoadingProjectRef, autoSaveTimer, currentProjectId,
                 effectDeps, savedContent>>
serviceVars == <<refReads, projectVars, serverVars, decorVars, autosaveVars>>

vars == <<canvasVars, lastAlert, lastOp, hist, studioVars, serviceVars>>

envVars == <<window, availableResolutions>>
uiVars == <<selectedTool, prompt, variationCount, activeModel, referenceImages>>
viewVars == <<zoom, canvasOffset>>
dragVars == <<refs, draggingLayerId, layerDragOffset>>
genVars == <<isGenerating, generatingEffect, gens>>

\* alert() is modal: lastAlert is the message the current step showed, if any
NoAlert == lastAlert' = "none"

\* ------------------------------------------------------------------------
\* Construction
\* ------------------------------------------------------------------------
\* initialZoom = Math.max(0.05, window.innerWidth / INITIAL_VIEWPORT_WIDTH)
initialZoom(win) == RMax(MinZoom, Frac(win.innerWidth, INITIAL_VIEWPORT_WIDTH))

\* useState({x: innerWidth / 2 - (CANVAS_SIZE / 2) * initialZoom, y: ...})
initialOffset(win) ==
    [x |-> RSub(Frac(win.innerWidth, 2),
                RMul(Frac(CANVAS_SIZE, 2), initialZoom(win))),
     y |-> RSub(Frac(win.innerHeight, 2),
                RMul(Frac(CANVAS_SIZE, 2), initialZoom(win)))]

InitRefs ==
    [isMiddlePanning |-> FALSE,
     dragStartRef |-> NULL,
     isDraggingRef |-> FALSE,
     isDraggingLayerRef |-> FALSE,
     isDraggingSelectionRef |-> FALSE,
     selectionDragStartRef |-> NULL,
     initialSelectionPosRef |-> NULL,
     dragAxisRef |-> "none",
     lastTouchDist |-> NULL,
     lastTouchCenter |-> NULL]

NoGesture == [kind |-> "none", raw |-> NULL, at |-> NULL, sel |-> NULL]
\* history: one of two fingers has been lifted, the other is still down
Lifted == [NoGesture EXCEPT !.kind = "lifted"]

\* callable-function invocations of the one user that are modelled
MaxCalls == 2
\* an invocation that has not been made
NoCall == [fn |-> "none", pc |-> "idle", cost |-> 0, scenes |-> NULL,
           deducted |-> FALSE, before |-> 0, refunds |-> 0, error |-> "none"]

NoHist == [undoBase |-> NULL, view |-> NULL, at |-> NULL, to |-> NULL,
           sel |-> NULL, gesture |-> NoGesture]

\* a shot and a scene of the Studio; frames and video URLs are numbers: frame
\* 0 is an image the user chose, frame v > 0 the last frame of video v
Shot(shotPrompt, duration) == [prompt |-> shotPrompt, duration |-> duration]

NewScene(id, startFrame) ==
    [id |-> id, startFrame |-> startFrame, endFrame |-> NULL,
     shots |-> <<Shot("", "5")>>, videos |-> <<>>, selectedVideoIndex |-> -1,
     isGenerating |-> FALSE, variationCount |-> 1]

\* App: useState<Scene[]>([{ id: '1', startFrame: null, ... }])
InitialScenes == <<NewScene(1, NULL)>>

NoStudioHist == [outcome |-> "none", sceneId |-> 0, before |-> <<>>,
                 produced |-> <<>>, loops |-> 0]

InitStudio ==
    /\ scenes = InitialScenes
    /\ sceneGens = <<>>
    /\ nextSceneId = 2
    /\ nextVideo = 1
    /\ studioHist = NoStudioHist
    /\ isExporting = FALSE
    /\ exportStatus = ""
    /\ exportRun = NULL
    /\ downloads = 0
    /\ played = <<>>

InitCanvas(win, resolutions) ==
    /\ window = win
    /\ availableResolutions = resolutions
    /\ selectedTool = "select"
    /\ layers = <<>>
    /\ redoStack = <<>>
    /\ selectedLayerIds = {}
    /\ selection = NULL
    /\ zoom = initialZoom(win)
    /\ canvasOffset = initialOffset(win)
    /\ refs = InitRefs
    /\ draggingLayerId = NULL
    /\ layerDragOffset = NULL
    /\ isGenerating = FALSE
    /\ generatingEffect = ""
    /\ gens = <<>>
    /\ prompt = ""
    /\ variationCount = 1
    /\ activeModel = "NANO_BANANA_2"
    /\ referenceImages = 0
    /\ lastAlert = "none"
    /\ moves = 0
    /\ uploads = <<>>
    /\ nextId = 1
    /\ pointer = "up"
    /\ gesture = NoGesture
    /\ lastOp = "init"
    /\ hist = NoHist

\* no call has been made; the user document holds `doc`
InitServer(doc, email) ==
    /\ userDoc = doc
    /\ authEmail = email
    /\ calls = [c \in 1..MaxCalls |-> NoCall]

\* nothing is being read or stored yet
InitStores ==
    /\ refReads = <<>>
    /\ projectHistory = <<>>
    /\ projectLayers = {}
    /\ loads = {}
    /\ clock = 1
    /\ nextProjectId = 1
    /\ storeHist = <<>>

\* no polygon is being drawn
InitDecor ==
    /\ drawingPoints = <<>>
    /\ cursorPos = NULL
    /\ zoneCount = 0
    /\ decorLayers = <<>>

\* App at mount: useState(null) for the user, useRef(false), useRef(null);
\* getCurrentProjectId() of a browser that has stored no project
InitAutosave ==
    /\ user = FALSE
    /\ isLoadingProjectRef = FALSE
    /\ autoSaveTimer = FALSE
    /\ currentProjectId = NULL
    /\ effectDeps = NULL
    /\ savedContent = NULL

\* a user who has not logged in before
InitServices ==
    InitStores /\ InitServer(<<>>, "user@example.com") /\ InitDecor /\ InitAutosave

InitWith(win, resolutions) ==
    /\ InitCanvas(win, resolutions)
    /\ InitStudio
    /\ InitServices
    /\ ratioArg = NULL
    /\ ratioKey = "none"

\* ------------------------------------------------------------------------
\* Layer store (useCanvasLayers)
\* ------------------------------------------------------------------------
Layer(id, type, x, y, w, h) ==
    [id |-> id, type |-> type, visible |-> TRUE, locked |-> FALSE,
     x |-> x, y |-> y, width |-> w, height |-> h]

LayerIds(ls) == {ls[k].id : k \in 1..Len(ls)}

\* prev.filter(l => l.id !== id)
RECURSIVE WithoutLayer(_, _)
WithoutLayer(ls, id) ==
    IF ls = <<>> THEN <<>>
    ELSE IF Head(ls).id = id THEN WithoutLayer(Tail(ls), id)
    ELSE <<Head(ls)>> \o WithoutLayer(Tail(ls), id)

\* [x, ...prev]
Prepend(x, prev) == <<x>> \o prev

\* a restore that puts the layer at the other end of the list
RestoreLayerLast(restored, prev) == prev \o <<restored>>

\* handleRedo: setLayers(prev => [restored, ...prev])
RestoreLayer(restored, prev) == Prepend(restored, prev)

\* the history every handler leaves unless it records something
Did(op) == lastOp' = op /\ hist' = NoHist /\ UNCHANGED <<moves, studioVars, serviceVars>>

handleUndo ==
    /\ IF layers = <<>>
       THEN UNCHANGED <<layers, redoStack, selectedLayerIds>>
       ELSE /\ layers' = Tail(layers)
            /\ redoStack' = Prepend(Head(layers), redoStack)
            /\ selectedLayerIds' = selectedLayerIds \ {Head(layers).id}
    /\ lastOp' = "handleUndo"
    /\ UNCHANGED <<moves, studioVars, serviceVars>>
    /\ hist' = [NoHist EXCEPT !.undoBase = <<layers>>]
    /\ NoAlert
    /\ UNCHANGED <<envVars, uiVars, viewVars, dragVars, genVars, selection,
                   uploads, nextId, pointer, gesture>>

handleRedo ==
    /\ IF redoStack = <<>>
       THEN UNCHANGED <<layers, redoStack, selectedLayerIds>>
       ELSE /\ redoStack' = Tail(redoStack)
            /\ layers' = RestoreLayer(Head(redoStack), layers)
            /\ selectedLayerIds' = {Head(redoStack).id}
    /\ lastOp' = "handleRedo"
    /\ UNCHANGED <<moves, studioVars, serviceVars>>
    /\ hist' = [NoHist EXCEPT !.undoBase =
                   IF lastOp = "handleUndo" THEN hist.undoBase ELSE NULL]
    /\ NoAlert
    /\ UNCHANGED <<envVars, uiVars, viewVars, dragVars, genVars, selection,
                   uploads, nextId, pointer, gesture>>

handleDeleteLayer(id) ==
    /\ layers' = WithoutLayer(layers, id)
    /\ selectedLayerIds' = selectedLayerIds \ {id}
    /\ redoStack' = <<>>
    /\ Did("handleDeleteLayer")
    /\ NoAlert
    /\ UNCHANGED <<envVars, uiVars, viewVars, dragVars, genVars, selection,
                   uploads, nextId, pointer, gesture>>

\* prev.map(l => l.id === id ? {...l, ...updates} : l), for the updates
\* {visible: !visible} (the layer panel's eye) and {locked: !locked}
handleUpdateLayer(id, field) ==
    /\ layers' = [k \in 1..Len(layers) |->
                    IF layers[k].id = id
                    THEN IF field = "visible"
                         THEN [layers[k] EXCEPT !.visible = ~layers[k].visible]
                         ELSE [layers[k] EXCEPT !.locked = ~layers[k].locked]
                    ELSE layers[k]]
    /\ Did("handleUpdateLayer")
    /\ NoAlert
    /\ UNCHANGED <<envVars, uiVars, viewVars, dragVars, genVars, selection,
                   redoStack, selectedLayerIds, uploads, nextId, pointer, gesture>>

\* the entry a list holds where JavaScript stored undefined
UndefinedEntry == [Layer(0, "undefined", R(0), R(0), R(0), R(0)) EXCEPT !.visible = FALSE]
HasNoUndefined(ls) == \A k \in 1..Len(ls) : ls[k] # UndefinedEntry

\* Array.prototype.splice: a negative start counts from the end and is
\* clamped at 0, a start past the end is clamped to the length (0-based)
SpliceStart(start, len) ==
    IF start < 0 THEN (IF len + start < 0 THEN 0 ELSE len + start)
    ELSE IF start > len THEN len ELSE start

\* SpliceRemoved: what splice(start, 1) returns; SpliceRest: what it leaves
SpliceRemoved(ls, start) ==
    LET s0 == SpliceStart(start, Len(ls))
    IN  IF s0 < Len(ls) THEN <<ls[s0 + 1]>> ELSE <<>>
SpliceRest(ls, start) ==
    LET s0 == SpliceStart(start, Len(ls))
    IN  SubSeq(ls, 1, s0) \o SubSeq(ls, s0 + 2, Len(ls))
\* splice(start, 0, item)
SpliceInsert(ls, start, item) ==
    LET s0 == SpliceStart(start, Len(ls))
    IN  SubSeq(ls, 1, s0) \o <<item>> \o SubSeq(ls, s0 + 1, Len(ls))

\* const [movedItem] = newLayers.splice(fromIndex, 1);
\* newLayers.splice(toIndex, 0, movedItem): destructuring an empty array
\* gives undefined, which is inserted like any item
ReorderedLayers(prev, fromIndex, toIndex) ==
    LET removed == SpliceRemoved(prev, fromIndex)
        movedItem == IF removed = <<>> THEN UndefinedEntry ELSE removed[1]
    IN  SpliceInsert(SpliceRest(prev, fromIndex), toIndex, movedItem)

handleReorderLayers(fromIndex, toIndex) ==
    /\ layers' = ReorderedLayers(layers, fromIndex, toIndex)
    /\ lastOp' = "handleReorderLayers"
    /\ hist' = [NoHist EXCEPT !.at = <<fromIndex, toIndex>>]
    /\ UNCHANGED <<moves, studioVars, serviceVars>>
    /\ NoAlert
    /\ UNCHANGED <<envVars, uiVars, viewVars, dragVars, genVars, selection,
                   redoStack, selectedLayerIds, uploads, nextId, pointer, gesture>>

\* prev.findIndex(l => l.id === id), 0-based; -1 if there is none
FindIndex(ls, id) ==
    IF \E k \in 1..Len(ls) : ls[k].id = id
    THEN (CHOOSE k \in 1..Len(ls) :
             ls[k].id = id /\ \A j \in 1..(k - 1) : ls[j].id # id) - 1
    ELSE -1

\* the list with the entries at the 0-based indices i and j exchanged
Exchanged(ls, i, j) ==
    [k \in 1..Len(ls) |->
        IF k = i + 1 THEN ls[j + 1] ELSE IF k = j + 1 THEN ls[i + 1] ELSE ls[k]]

MovedLayers(prev, id, direction) ==
    LET index == FindIndex(prev, id)
    IN  IF index = -1 THEN prev
        ELSE IF direction = "up"
        THEN IF index = 0 THEN prev ELSE Exchanged(prev, index, index - 1)
        ELSE IF index = Len(prev) - 1 THEN prev ELSE Exchanged(prev, index, index + 1)

handleMoveLayer(id, direction) ==
    /\ layers' = MovedLayers(layers, id, direction)
    /\ lastOp' = "handleMoveLayer"
    /\ hist' = [NoHist EXCEPT !.at = <<FindIndex(layers, id)>>]
    /\ UNCHANGED <<moves, studioVars, serviceVars>>
    /\ NoAlert
    /\ UNCHANGED <<envVars, uiVars, viewVars, dragVars, genVars, selection,
                   redoStack, selectedLayerIds, uploads, nextId, pointer, gesture>>

\* the history the two App handlers leave, and what neither touches
AppDid(op) ==
    /\ lastOp' = op
    /\ hist' = NoHist
    /\ UNCHANGED <<moves, ratioVars, sceneGens, nextVideo, studioHist, exportVars,
                   refReads, projectVars, serverVars, decorVars,
                   user, autoSaveTimer>>

\* App.handleNewCanvas: setLayers([]), setScenes([one empty scene]),
\* setCurrentProjectIdState(null).  CanvasMode stays mounted, so the redo
\* stack, the selection and the viewport are kept.  The arrays are new ones,
\* so the autosave effect is due.
handleNewCanvas ==
    /\ layers' = <<>>
    /\ scenes' = InitialScenes
    /\ currentProjectId' = NULL
    /\ effectDeps' = NULL
    /\ savedContent' = NULL
    /\ AppDid("handleNewCanvas")
    /\ NoAlert
    /\ UNCHANGED <<envVars, uiVars, viewVars, dragVars, genVars, selection,
                   redoStack, selectedLayerIds, uploads, nextId, pointer, gesture,
                   nextSceneId, isLoadingProjectRef>>

\* loadedScenes && loadedScenes.length > 0 ? loadedScenes : [one empty scene]
ScenesToInstall(loadedScenes) ==
    IF loadedScenes # NULL /\ Len(loadedScenes) > 0 THEN loadedScenes
    ELSE InitialScenes

\* App.handleLoadProject: isLoadingProjectRef.current = true,
\* setLayers(loadedLayers), setScenes(...), setCurrentProjectIdState(projectId);
\* like handleNewCanvas it leaves the state of the mounted CanvasMode alone.
\* The ids of the loaded layers and scenes are taken, so fresh ids start
\* above them.
handleLoadProject(loadedLayers, projectId, loadedScenes) ==
    /\ isLoadingProjectRef' = TRUE
    /\ layers' = loadedLayers
    /\ scenes' = ScenesToInstall(loadedScenes)
    /\ currentProjectId' = <<projectId>>
    /\ effectDeps' = NULL
    /\ savedContent' = <<loadedLayers, ScenesToInstall(loadedScenes)>>
    /\ nextId' = SetMax({nextId} \cup {l + 1 : l \in LayerIds(loadedLayers)})
    /\ nextSceneId' = SetMax({nextSceneId}
                             \cup {ScenesToInstall(loadedScenes)[k].id + 1 :
                                       k \in 1..Len(ScenesToInstall(loadedScenes))})
    /\ AppDid("handleLoadProject")
    /\ NoAlert
    /\ UNCHANGED <<envVars, uiVars, viewVars, dragVars, genVars, selection,
                   redoStack, selectedLayerIds, uploads, pointer, gesture>>

\* ------------------------------------------------------------------------
\* Image upload (useCanvasUpload.handleImageUpload)
\* ------------------------------------------------------------------------
\* (window.innerWidth / 2 - canvasOffset.x) / zoom
viewportCenter(win, off, z) ==
    [x |-> RDiv(RSub(Frac(win.innerWidth, 2), off.x), z),
     y |-> RDiv(RSub(Frac(win.innerHeight, 2), off.y), z)]

\* the change handler: starts the file read; the callbacks close over the
\* canvasOffset and zoom of this render
handleImageUpload(w, h) ==
    /\ uploads' = Append(uploads,
                     [center |-> viewportCenter(window, canvasOffset, zoom),
                      w |-> w, h |-> h])
    /\ Did("handleImageUpload")
    /\ NoAlert
    /\ UNCHANGED <<envVars, uiVars, viewVars, dragVars, genVars, selection,
                   layers, redoStack, selectedLayerIds, nextId, pointer, gesture>>

\* reader.onload, then img.onload: the new layer is centred on the viewport
\* centre captured by the change handler
ImageLoaded(k, id) ==
    LET u == uploads[k]
        x == RSub(u.center.x, Frac(u.w, 2))
        y == RSub(u.center.y, Frac(u.h, 2))
    IN  /\ layers' = Prepend(Layer(id, "image", x, y, R(u.w), R(u.h)), layers)
        /\ selectedLayerIds' = {id}
        /\ redoStack' = <<>>
        /\ uploads' = SubSeq(uploads, 1, k - 1) \o SubSeq(uploads, k + 1, Len(uploads))
        /\ nextId' = id + 1
        /\ Did("ImageLoaded")
        /\ NoAlert
        /\ UNCHANGED <<envVars, uiVars, viewVars, dragVars, genVars, selection,
                       pointer, gesture>>

\* the history a reference handler leaves
RefDid(op) ==
    lastOp' = op /\ hist' = NoHist /\ UNCHANGED <<moves, studioVars, projectVars, serverVars, decorVars, autosaveVars>>

\* a file read in flight: the callback closes over the referenceImages.length,
\* canvasOffset and zoom of the render that created it
FileRead(kind, w, h) ==
    [kind |-> kind, length |-> referenceImages,
     center |-> viewportCenter(window, canvasOffset, zoom), w |-> w, h |-> h]

\* if (referenceImages.length < 10) setReferenceImages(prev => [...prev, x])
\* else alert(...), with the length the caller closed over
AddReference(length) ==
    IF length < 10
    THEN referenceImages' = referenceImages + 1 /\ NoAlert
    ELSE UNCHANGED referenceImages /\ lastAlert' = "reference-limit"

\* handleReferenceUpload: starts the file read
handleReferenceUpload ==
    /\ refReads' = Append(refReads, FileRead("reference", 0, 0))
    /\ RefDid("handleReferenceUpload")
    /\ NoAlert
    /\ UNCHANGED <<envVars, uiVars, viewVars, dragVars, genVars, selection, layers,
                   redoStack, selectedLayerIds, uploads, nextId, pointer, gesture>>

\* handleGlobalPaste: one file read per image item of the clipboard
handleGlobalPaste(items, w, h) ==
    /\ refReads' = refReads \o [k \in 1..items |-> FileRead("paste", w, h)]
    /\ RefDid("handleGlobalPaste")
    /\ NoAlert
    /\ UNCHANGED <<envVars, uiVars, viewVars, dragVars, genVars, selection, layers,
                   redoStack, selectedLayerIds, uploads, nextId, pointer, gesture>>

\* reader.onload of read k.  A reference upload, and a paste that completes
\* while the prompt input has the focus, add a reference; a paste that
\* completes elsewhere goes on to load the image for a new layer.
ReferenceRead(k, promptFocused) ==
    LET read == refReads[k]
    IN  /\ refReads' = SubSeq(refReads, 1, k - 1) \o SubSeq(refReads, k + 1, Len(refReads))
        /\ RefDid("ReferenceRead")
        /\ IF read.kind = "reference" \/ promptFocused
           THEN /\ AddReference(read.length)
                /\ UNCHANGED uploads
           ELSE /\ uploads' = Append(uploads,
                                  [center |-> read.center, w |-> read.w, h |-> read.h])
                /\ UNCHANGED referenceImages
                /\ NoAlert
        /\ UNCHANGED <<envVars, selectedTool, prompt, variationCount, activeModel,
                       viewVars, dragVars, genVars, selection, layers, redoStack,
                       selectedLayerIds, nextId, pointer, gesture>>

\* handleRemoveReference(index): prev.filter((_, i) => i !== index)
handleRemoveReference(index) ==
    /\ referenceImages' = IF index < referenceImages THEN referenceImages - 1
                          ELSE referenceImages
    /\ RefDid("handleRemoveReference")
    /\ NoAlert
    /\ UNCHANGED <<envVars, selectedTool, prompt, variationCount, activeModel,
                   viewVars, dragVars, genVars, selection, layers, redoStack,
                   selectedLayerIds, uploads, nextId, pointer, gesture, refReads>>

\* handleUseLayerAsReference(layer): an image layer's src becomes a reference
handleUseLayerAsReference(id) ==
    /\ \E k \in 1..Len(layers) :
          /\ layers[k].id = id
          /\ IF layers[k].type # "video"
             THEN AddReference(referenceImages)
             ELSE UNCHANGED referenceImages /\ NoAlert
    /\ RefDid("handleUseLayerAsReference")
    /\ UNCHANGED <<envVars, selectedTool, prompt, variationCount, activeModel,
                   viewVars, dragVars, genVars, selection, layers, redoStack,
                   selectedLayerIds, uploads, nextId, pointer, gesture, refReads>>

\* ------------------------------------------------------------------------
\* Generation orchestrator (useCanvasGeneration)
\* ------------------------------------------------------------------------
ALL_EFFECTS == {"effect-rainbow-linear", "effect-rainbow-diagonal",
                "effect-rainbow-vertical"}
\* the picks of Math.random explored
EffectChoices == {"effect-rainbow-linear"}

\* what a remote call (generateImageContent / generateVideo) can do: resolve
\* with data, resolve with null, or throw one of the three kinds of error
CallOutcomes == {"data", "empty", "credits", "safety", "error"}

\* the catch block of triggerGeneration: the message shown for an error
GenerationAlert(err) ==
    CASE err = "credits" -> "insufficient-credits"
      [] err = "safety" -> "safety-filter"
      [] OTHER -> "generic"

RemoveAt(seq, k) == SubSeq(seq, 1, k - 1) \o SubSeq(seq, k + 1, Len(seq))

\* Math.floor and Math.round of a rational
Floor(q) == q[1] \div q[2]
Round(q) == Floor(RAdd(q, Frac(1, 2)))

\* Math.round(Math.sqrt(q)): the r with (2r - 1)^2 <= 4q < (2r + 1)^2, by bisection
RECURSIVE RoundSqrtIn(_, _, _)
RoundSqrtIn(q, lo, hi) ==
    IF lo >= hi THEN lo
    ELSE LET mid == (lo + hi) \div 2
         IN  IF RLe(RMul(R(4), q), R((2 * mid + 1) * (2 * mid + 1))) /\
                ~(RMul(R(4), q) = R((2 * mid + 1) * (2 * mid + 1)))
             THEN RoundSqrtIn(q, lo, mid)
             ELSE RoundSqrtIn(q, mid + 1, hi)
\* the search stops at 16384: every square root taken here is below it
RoundSqrt(q) == RoundSqrtIn(q, 0, IF Floor(q) + 1 < 16384 THEN Floor(q) + 1 ELSE 16384)

\* a finally block that leaves the selection rectangle in place
FinallyKeepsSelection(k) ==
    /\ isGenerating' = FALSE
    /\ UNCHANGED selection
    /\ generatingEffect' = ""
    /\ gens' = RemoveAt(gens, k)

\* the finally block: setIsGenerating(false); setSelection(null);
\* setGeneratingEffect(''); the invocation is over
Finally(k) ==
    /\ isGenerating' = FALSE
    /\ selection' = NULL
    /\ generatingEffect' = ""
    /\ gens' = RemoveAt(gens, k)

\* history: a number that tells an invocation from the others in flight
FreeTicket ==
    SetMin({t \in 0..Len(gens) : \A k \in 1..Len(gens) : gens[k].ticket # t})

\* triggerGeneration up to its first await (getCanvasSnapshot)
triggerGeneration(feather) ==
    IF selection = NULL
    THEN UNCHANGED <<isGenerating, generatingEffect, gens>>
    ELSE /\ \E effect \in EffectChoices : generatingEffect' = effect
         /\ isGenerating' = TRUE
         /\ gens' = Append(gens,
                [kind |-> "generate", pc |-> "snapshot", sel |-> selection,
                 video |-> (activeModel = "KLING_PRO"),
                 loops |-> IF activeModel = "KLING_PRO" THEN 1 ELSE variationCount,
                 i |-> 0, hasRefs |-> (referenceImages > 0), snapshot |-> FALSE,
                 feather |-> feather, added |-> 0, calls |-> 0, target |-> NULL,
                 ticket |-> FreeTicket])

\* handleGenerate: if (!prompt.trim()) return; triggerGeneration(prompt)
handleGenerate ==
    IF prompt = ""
    THEN UNCHANGED <<isGenerating, generatingEffect, gens>>
    ELSE triggerGeneration(0)

\* handleMagicFill: triggerGeneration(magicPrompt, {defaultFeather: 20})
handleMagicFill == triggerGeneration(20)

\* the size handleUpscale4K upscales to, a function of the rectangle it
\* captured on entry (selRect); it is computed once the snapshot is there
TARGET_PIXELS == 8000000
MAX_SIDE == 4096
UpscaleTarget(sel) ==
    LET ratio == RDiv(sel.w, sel.h)
        w0 == RoundSqrt(RMul(R(TARGET_PIXELS), ratio))
        h0 == Round(RDiv(R(w0), ratio))
        w1 == IF w0 > MAX_SIDE THEN MAX_SIDE ELSE w0
        h1 == IF w0 > MAX_SIDE THEN Round(RDiv(R(MAX_SIDE), ratio)) ELSE h0
        h2 == IF h1 > MAX_SIDE THEN MAX_SIDE ELSE h1
        w2 == IF h1 > MAX_SIDE THEN Round(RMul(R(MAX_SIDE), ratio)) ELSE w1
    IN  [w |-> w2, h |-> h2]

\* handleUpscale4K up to its first await; target is recorded with the
\* captured rectangle it is computed from
handleUpscale4K ==
    IF selection = NULL
    THEN /\ lastAlert' = "upscale-no-selection"
         /\ UNCHANGED <<isGenerating, generatingEffect, gens>>
    ELSE /\ isGenerating' = TRUE
         /\ \E effect \in EffectChoices : generatingEffect' = effect
         /\ gens' = Append(gens,
                [kind |-> "upscale", pc |-> "snapshot", sel |-> selection,
                 video |-> FALSE, loops |-> 1, i |-> 0, hasRefs |-> FALSE,
                 snapshot |-> FALSE, feather |-> 0, added |-> 0, calls |-> 0,
                 target |-> UpscaleTarget(selection), ticket |-> FreeTicket])
         /\ NoAlert

\* The UI triggers.  The three buttons are disabled while isGeneratingState
\* or without a selection (Magic Fill and 4K also in video mode); the prompt
\* input's onKeyDown calls handleGenerate() on Enter with no such test.
ClickGenerate ==
    /\ ~isGenerating /\ selection # NULL
    /\ handleGenerate
    /\ Did("ClickGenerate")
    /\ NoAlert
    /\ UNCHANGED <<envVars, uiVars, viewVars, dragVars, layers, redoStack,
                   selectedLayerIds, selection, uploads, nextId,
                   pointer, gesture>>

PressEnter ==
    /\ handleGenerate
    /\ Did("PressEnter")
    /\ NoAlert
    /\ UNCHANGED <<envVars, uiVars, viewVars, dragVars, layers, redoStack,
                   selectedLayerIds, selection, uploads, nextId,
                   pointer, gesture>>

ClickMagicFill ==
    /\ ~isGenerating /\ selection # NULL /\ activeModel # "KLING_PRO"
    /\ handleMagicFill
    /\ Did("ClickMagicFill")
    /\ NoAlert
    /\ UNCHANGED <<envVars, uiVars, viewVars, dragVars, layers, redoStack,
                   selectedLayerIds, selection, uploads, nextId,
                   pointer, gesture>>

ClickUpscale ==
    /\ ~isGenerating /\ selection # NULL /\ activeModel # "KLING_PRO"
    /\ handleUpscale4K
    /\ Did("ClickUpscale")
    /\ UNCHANGED <<envVars, uiVars, viewVars, dragVars, layers, redoStack,
                   selectedLayerIds, selection, uploads, nextId, pointer, gesture>>

\* getCanvasSnapshot resolves: a data URL, or null when the 2d context could
\* not be created.  triggerGeneration then builds imagesToSend and enters
\* the loop (loops >= 1: variationCount is one of 1..5)
SnapshotDone(k, ok) ==
    /\ gens[k].kind = "generate" /\ gens[k].pc = "snapshot"
    /\ gens' = [gens EXCEPT ![k].pc = "call", ![k].snapshot = ok]
    /\ Did("SnapshotDone")
    /\ NoAlert
    /\ UNCHANGED <<envVars, uiVars, viewVars, dragVars, layers, redoStack,
                   selectedLayerIds, selection, isGenerating, generatingEffect,
                   uploads, nextId, pointer, gesture>>

\* the endpoint iteration i calls: generateVideo when the model is the video
\* model and imagesToSend is not empty, generateImageContent otherwise
Endpoint(g) ==
    IF g.video /\ (g.snapshot \/ g.hasRefs) THEN "video" ELSE "image"

\* the new layer sized to the selection at the time the call returns
GeneratedLayerAtReturn(g, id) ==
    LET sel == IF selection = NULL THEN g.sel ELSE selection
    IN  Layer(id, IF Endpoint(g) = "video" THEN "video" ELSE "generation",
              sel.x, sel.y, sel.w, sel.h)

\* the layer one successful iteration creates, sized to the captured selection
GeneratedLayer(g, id) ==
    Layer(id, IF Endpoint(g) = "video" THEN "video" ELSE "generation",
          g.sel.x, g.sel.y, g.sel.w, g.sel.h)

\* one remote call of the loop returns; on the last iteration, or on a throw,
\* the rest of the function (setRedoStack([]), catch, finally) runs with it
CallReturns(k, outcome, id) ==
    LET g == gens[k]
        last == g.i + 1 >= g.loops
    IN  /\ g.kind = "generate" /\ g.pc = "call"
        /\ IF outcome = "data"
           THEN /\ layers' = Prepend(GeneratedLayer(g, id), layers)
                /\ selectedLayerIds' = {id}
                /\ nextId' = id + 1
           ELSE UNCHANGED <<layers, selectedLayerIds, nextId>>
        /\ IF outcome \in {"data", "empty"}
           THEN IF last
                THEN /\ redoStack' = <<>>
                     /\ Finally(k)
                     /\ NoAlert
                ELSE /\ gens' = [gens EXCEPT ![k].i = g.i + 1,
                                    ![k].calls = g.calls + 1,
                                    ![k].added = g.added +
                                        (IF outcome = "data" THEN 1 ELSE 0)]
                     /\ NoAlert
                     /\ UNCHANGED <<redoStack, isGenerating, selection,
                                    generatingEffect>>
           ELSE /\ lastAlert' = GenerationAlert(outcome)
                /\ Finally(k)
                /\ UNCHANGED redoStack
        /\ UNCHANGED <<moves, studioVars, serviceVars>>
        /\ lastOp' = IF outcome \in {"data", "empty"} /\ ~last
                     THEN "CallReturns" ELSE "GenerationDone"
        /\ hist' = [NoHist EXCEPT !.at =
                      <<g.added + (IF outcome = "data" THEN 1 ELSE 0)>>,
                                  !.to = <<outcome>>]
        /\ UNCHANGED <<envVars, uiVars, viewVars, dragVars, uploads, pointer, gesture>>

\* handleUpscale4K after getCanvasSnapshot: no snapshot -> alert and return;
\* else the 2d context of the target size is created (a failure throws into
\* the catch block); then it awaits the snapshot image's load
UpscaleSnapshotDone(k, outcome) ==
    /\ gens[k].kind = "upscale" /\ gens[k].pc = "snapshot"
    /\ outcome \in {"no-snapshot", "no-context", "ok"}
    /\ IF outcome = "ok"
       THEN /\ gens' = [gens EXCEPT ![k].pc = "imgload", ![k].snapshot = TRUE]
            /\ NoAlert
            /\ UNCHANGED <<isGenerating, selection, generatingEffect>>
       ELSE /\ lastAlert' = IF outcome = "no-snapshot"
                            THEN "upscale-no-content" ELSE "upscale-error"
            /\ Finally(k)
    /\ Did("UpscaleSnapshotDone")
    /\ UNCHANGED <<envVars, uiVars, viewVars, dragVars, layers, redoStack,
                   selectedLayerIds, uploads, nextId, pointer, gesture>>

\* img.onload / img.onerror of the snapshot image
UpscaleImageLoaded(k, ok) ==
    /\ gens[k].kind = "upscale" /\ gens[k].pc = "imgload"
    /\ IF ok
       THEN /\ gens' = [gens EXCEPT ![k].pc = "call"]
            /\ NoAlert
            /\ UNCHANGED <<isGenerating, selection, generatingEffect>>
       ELSE /\ lastAlert' = "upscale-error"
            /\ Finally(k)
    /\ Did("UpscaleImageLoaded")
    /\ UNCHANGED <<envVars, uiVars, viewVars, dragVars, layers, redoStack,
                   selectedLayerIds, uploads, nextId, pointer, gesture>>

\* generateImageContent returns to handleUpscale4K
UpscaleCallReturns(k, outcome, id) ==
    LET g == gens[k]
    IN  /\ g.kind = "upscale" /\ g.pc = "call"
        /\ IF outcome = "data"
           THEN /\ layers' = Prepend(Layer(id, "generation", g.sel.x, g.sel.y,
                                           R(g.target.w), R(g.target.h)), layers)
                /\ selectedLayerIds' = {id}
                /\ redoStack' = <<>>
                /\ nextId' = id + 1
                /\ NoAlert
           ELSE /\ lastAlert' = IF outcome = "empty" THEN "upscale-failed"
                                ELSE "upscale-error"
                /\ UNCHANGED <<layers, selectedLayerIds, redoStack, nextId>>
        /\ Finally(k)
        /\ lastOp' = "GenerationDone"
        /\ UNCHANGED <<moves, studioVars, serviceVars>>
        /\ hist' = [NoHist EXCEPT !.at = <<IF outcome = "data" THEN 1 ELSE 0>>]
        /\ UNCHANGED <<envVars, uiVars, viewVars, dragVars, uploads, pointer, gesture>>

\* ------------------------------------------------------------------------
\* Canvas interaction engine (useCanvasInteraction)
\* ------------------------------------------------------------------------
Pt(a, b) == <<a, b>>

\* (clientX - rect.left - canvasOffset.x) / zoom
WorldX(cx) == RDiv(RSub(RSub(cx, R(CanvasRect.left)), canvasOffset.x), zoom)
WorldY(cy) == RDiv(RSub(RSub(cy, R(CanvasRect.top)), canvasOffset.y), zoom)

Contains(l, x, y) ==
    /\ RGe(x, l.x) /\ RLe(x, RAdd(l.x, l.width))
    /\ RGe(y, l.y) /\ RLe(y, RAdd(l.y, l.height))


\* [...layersRef.current].reverse().find(l => inside && l.visible && !l.locked):
\* the index of the layer found (the first match of the reversed list), 0 if none
clickedLayer(ls, x, y, unlockedOnly) ==
    LET hits == {k \in 1..Len(ls) :
                    /\ Contains(ls[k], x, y)
                    /\ ls[k].visible
                    /\ (unlockedOnly => ~ls[k].locked)}
    IN  IF hits = {} THEN 0 ELSE SetMax(hits)

startVars == <<selection, refs, draggingLayerId, layerDragOffset, layers,
               redoStack, selectedLayerIds>>

handleStart(cx, cy, button) ==
    LET x == WorldX(cx)
        y == WorldY(cy)
        hit == clickedLayer(layers, x, y, TRUE)
    IN
    IF RLe(zoom, Frac(1, 1000)) \/ isGenerating THEN UNCHANGED startVars
    ELSE IF button = 1
    THEN /\ refs' = [refs EXCEPT !.isMiddlePanning = TRUE,
                                 !.isDraggingRef = TRUE,
                                 !.dragStartRef = Pt(cx, cy)]
         /\ UNCHANGED <<selection, draggingLayerId, layerDragOffset, layers,
                        redoStack, selectedLayerIds>>
    ELSE CASE selectedTool = "select" ->
              IF /\ selection # NULL
                 /\ RGe(x, selection.x) /\ RLe(x, RAdd(selection.x, selection.w))
                 /\ RGe(y, selection.y) /\ RLe(y, RAdd(selection.y, selection.h))
              THEN /\ refs' = [refs EXCEPT
                                 !.isDraggingSelectionRef = TRUE,
                                 !.selectionDragStartRef = Pt(x, y),
                                 !.initialSelectionPosRef = Pt(selection.x, selection.y),
                                 !.dragAxisRef = "none"]
                   /\ UNCHANGED <<selection, draggingLayerId, layerDragOffset,
                                  layers, redoStack, selectedLayerIds>>
              ELSE /\ refs' = [refs EXCEPT !.isDraggingRef = TRUE,
                                           !.dragStartRef = Pt(x, y)]
                   /\ selection' = NULL
                   /\ UNCHANGED <<draggingLayerId, layerDragOffset, layers,
                                  redoStack, selectedLayerIds>>
           [] selectedTool = "hand" ->
              /\ refs' = [refs EXCEPT !.isDraggingRef = TRUE,
                                      !.dragStartRef = Pt(cx, cy)]
              /\ UNCHANGED <<selection, draggingLayerId, layerDragOffset, layers,
                             redoStack, selectedLayerIds>>
           [] selectedTool = "move" ->
              IF hit # 0
              THEN /\ refs' = [refs EXCEPT !.isDraggingLayerRef = TRUE]
                   /\ draggingLayerId' = <<layers[hit].id>>
                   /\ selectedLayerIds' = {layers[hit].id}
                   /\ layerDragOffset' = Pt(RSub(x, layers[hit].x),
                                            RSub(y, layers[hit].y))
                   /\ UNCHANGED <<selection, layers, redoStack>>
              ELSE UNCHANGED startVars
           [] selectedTool = "eraser" ->
              IF hit # 0
              THEN /\ layers' = WithoutLayer(layers, layers[hit].id)
                   /\ redoStack' = <<>>
                   /\ UNCHANGED <<selection, refs, draggingLayerId,
                                  layerDragOffset, selectedLayerIds>>
              ELSE UNCHANGED startVars
           [] OTHER -> UNCHANGED startVars

\* what the gesture that a press starts is (history only)
StartedGesture(cx, cy, button) ==
    LET x == WorldX(cx)
        y == WorldY(cy)
        hit == clickedLayer(layers, x, y, TRUE)
    IN
    IF RLe(zoom, Frac(1, 1000)) \/ isGenerating THEN "none"
    ELSE IF button = 1 THEN "pan"
    ELSE CASE selectedTool = "select" ->
              IF /\ selection # NULL
                 /\ RGe(x, selection.x) /\ RLe(x, RAdd(selection.x, selection.w))
                 /\ RGe(y, selection.y) /\ RLe(y, RAdd(selection.y, selection.h))
              THEN "dragSelection" ELSE "select"
           [] selectedTool = "hand" -> "pan"
           [] selectedTool = "move" -> IF hit # 0 THEN "dragLayer" ELSE "none"
           [] selectedTool = "eraser" -> IF hit # 0 THEN "erase" ELSE "none"
           [] OTHER -> "none"

\* the resolutions the snap uses: availableResolutions, or one 1:1 entry when
\* the list is missing or empty
SnapResolutions(resolutions) ==
    IF Len(resolutions) > 0 THEN resolutions
    ELSE <<[w |-> 1024, h |-> 1024, ratio |-> R(1)]>>

\* the ratio taken upside down
currentRatioInverted(rawW, rawH) == IF rawW = R(0) THEN R(1) ELSE RDiv(rawH, rawW)

\* const currentRatio = rawH === 0 ? 1 : rawW / rawH
currentRatio(rawW, rawH) == IF rawH = R(0) THEN R(1) ELSE RDiv(rawW, rawH)

\* a loop that never leaves the first entry
firstRes(resolutions, ratio) == resolutions[1]

\* the loop over resolutions: the first entry with the least
\* Math.abs(res.ratio - currentRatio)
bestRes(resolutions, ratio) ==
    LET diff(k) == RAbs(RSub(resolutions[k].ratio, ratio))
        k0 == SetMin({k \in 1..Len(resolutions) :
                        \A j \in 1..Len(resolutions) : RLe(diff(k), diff(j))})
    IN  resolutions[k0]

\* the rectangle a select drag from the anchor (startX, startY) to the
\* current world point gives
SnappedSelection(startX, startY, curX, curY, resolutions) ==
    LET rawW == RAbs(RSub(curX, startX))
        rawH == RAbs(RSub(curY, startY))
        ratio == currentRatio(rawW, rawH)
        best == bestRes(SnapResolutions(resolutions), ratio)
        newW == IF RGt(ratio, best.ratio) THEN RMul(rawH, best.ratio) ELSE rawW
        newH == IF RGt(ratio, best.ratio) THEN rawH ELSE RDiv(rawW, best.ratio)
        isLeft == RLt(curX, startX)
        isUp == RLt(curY, startY)
    IN  [x |-> IF isLeft THEN RSub(startX, newW) ELSE startX,
         y |-> IF isUp THEN RSub(startY, newH) ELSE startY,
         w |-> newW, h |-> newH]

\* the axis computed afresh on every move
LockedAxisEveryMove(axis, dx, dy) ==
    IF RGt(RAbs(dx), R(DragThreshold)) \/ RGt(RAbs(dy), R(DragThreshold))
    THEN (IF RGt(RAbs(dx), RAbs(dy)) THEN "horizontal" ELSE "vertical")
    ELSE axis

\* the axis a selection drag locks to once it passes the threshold
LockedAxis(axis, dx, dy) ==
    IF axis # "none" THEN axis
    ELSE IF RGt(RAbs(dx), R(DragThreshold)) \/ RGt(RAbs(dy), R(DragThreshold))
         THEN (IF RGt(RAbs(dx), RAbs(dy)) THEN "horizontal" ELSE "vertical")
         ELSE "none"

\* which branch of handleMove runs
MoveBranch ==
    IF /\ selectedTool = "move" /\ refs.isDraggingLayerRef
       /\ draggingLayerId # NULL /\ layerDragOffset # NULL
    THEN "layer"
    ELSE IF /\ refs.isDraggingSelectionRef /\ refs.selectionDragStartRef # NULL
            /\ refs.initialSelectionPosRef # NULL /\ selection # NULL
    THEN "selection"
    ELSE IF ~refs.isDraggingRef \/ refs.dragStartRef = NULL THEN "none"
    ELSE IF refs.isMiddlePanning \/ selectedTool = "hand" THEN "pan"
    ELSE IF selectedTool = "select" THEN "select"
    ELSE "none"

moveVars == <<layers, selection, canvasOffset, refs>>

handleMove(cx, cy) ==
    LET currentX == WorldX(cx)
        currentY == WorldY(cy)
    IN
    CASE MoveBranch = "layer" ->
           LET newX == RSub(currentX, layerDragOffset[1])
               newY == RSub(currentY, layerDragOffset[2])
           IN  /\ layers' = [k \in 1..Len(layers) |->
                               IF layers[k].id = draggingLayerId[1]
                               THEN [layers[k] EXCEPT !.x = newX, !.y = newY]
                               ELSE layers[k]]
               /\ UNCHANGED <<selection, canvasOffset, refs>>
      [] MoveBranch = "selection" ->
           LET dx == RSub(currentX, refs.selectionDragStartRef[1])
               dy == RSub(currentY, refs.selectionDragStartRef[2])
               axis == LockedAxis(refs.dragAxisRef, dx, dy)
               initial == refs.initialSelectionPosRef
           IN  /\ refs' = [refs EXCEPT !.dragAxisRef = axis]
               /\ selection' =
                    IF axis = "none" THEN selection
                    ELSE IF axis = "horizontal"
                    THEN [selection EXCEPT !.x = RAdd(initial[1], dx),
                                           !.y = initial[2]]
                    ELSE [selection EXCEPT !.x = initial[1],
                                           !.y = RAdd(initial[2], dy)]
               /\ UNCHANGED <<layers, canvasOffset>>
      [] MoveBranch = "pan" ->
           LET dx == RSub(cx, refs.dragStartRef[1])
               dy == RSub(cy, refs.dragStartRef[2])
           IN  /\ canvasOffset' = [x |-> RAdd(canvasOffset.x, dx),
                                   y |-> RAdd(canvasOffset.y, dy)]
               /\ refs' = [refs EXCEPT !.dragStartRef = Pt(cx, cy)]
               /\ UNCHANGED <<layers, selection>>
      [] MoveBranch = "select" ->
           /\ selection' = SnappedSelection(refs.dragStartRef[1],
                              refs.dragStartRef[2], currentX, currentY,
                              availableResolutions)
           /\ UNCHANGED <<layers, canvasOffset, refs>>
      [] OTHER -> UNCHANGED moveVars

\* setSelection(prev => prev && (prev.w < 10 || prev.h < 10) ? null : prev)
CommittedSelection(prev) ==
    IF prev # NULL /\ (RLt(prev.w, R(MinSelection)) \/ RLt(prev.h, R(MinSelection)))
    THEN NULL ELSE prev

endVars == <<selection, refs, draggingLayerId, layerDragOffset>>

\* a release that resets only what the two-finger touch start resets
handleEndKeepsDrag ==
    /\ selection' = IF selectedTool = "select"
                    THEN CommittedSelection(selection) ELSE selection
    /\ refs' = [refs EXCEPT !.isDraggingRef = FALSE, !.dragStartRef = NULL,
                            !.lastTouchDist = NULL, !.lastTouchCenter = NULL]
    /\ draggingLayerId' = NULL
    /\ layerDragOffset' = NULL

handleEnd ==
    /\ selection' = IF selectedTool = "select"
                    THEN CommittedSelection(selection) ELSE selection
    /\ refs' = InitRefs
    /\ draggingLayerId' = NULL
    /\ layerDragOffset' = NULL

handleDoubleClick(cx, cy) ==
    LET x == WorldX(cx)
        y == WorldY(cy)
        hit == clickedLayer(layers, x, y, FALSE)
    IN  IF hit # 0
        THEN /\ selection' = [x |-> layers[hit].x, y |-> layers[hit].y,
                              w |-> layers[hit].width, h |-> layers[hit].height]
             /\ selectedLayerIds' = {layers[hit].id}
        ELSE UNCHANGED <<selection, selectedLayerIds>>

\* a clamp that forgets the ceiling
ClampZoomFloorOnly(z) == RMax(MinZoom, z)

\* Math.min(Math.max(0.05, z), 5)
ClampZoom(z) == RMin(RMax(MinZoom, z), MaxZoom)

\* a zoom that leaves the offset alone, so it scales about the origin
OffsetKept(from, to, newZoom) == canvasOffset

\* the offset that puts the world point now under the screen point `from'
\* at the screen point `to' once the zoom is newZoom
OffsetAbout(from, to, newZoom) ==
    LET worldX == RDiv(RSub(from[1], canvasOffset.x), zoom)
        worldY == RDiv(RSub(from[2], canvasOffset.y), zoom)
    IN  [x |-> RSub(to[1], RMul(worldX, newZoom)),
         y |-> RSub(to[2], RMul(worldY, newZoom))]

\* a screen point relative to the canvas element
InCanvas(p) == Pt(RSub(p[1], R(CanvasRect.left)), RSub(p[2], R(CanvasRect.top)))

handleWheel(cx, cy, deltaY) ==
    IF deltaY = 0 THEN UNCHANGED <<zoom, canvasOffset>>
    ELSE LET newZoom == ClampZoom(RMul(zoom, ExpNeg(deltaY)))
             mouse == InCanvas(Pt(cx, cy))
         IN  /\ zoom' = newZoom
             /\ canvasOffset' = OffsetAbout(mouse, mouse, newZoom)

\* getTouchDistance / getTouchCenter of two touches, each a pair of integers
getTouchDistance(t) ==
    R(Sqrt((t[1][1] - t[2][1]) * (t[1][1] - t[2][1]) +
           (t[1][2] - t[2][2]) * (t[1][2] - t[2][2])))
getTouchCenter(t) == Pt(Frac(t[1][1] + t[2][1], 2), Frac(t[1][2] + t[2][2], 2))

\* handleTouchStart with two touches
TwoFingerStart(t) ==
    refs' = [refs EXCEPT !.isDraggingRef = FALSE,
                         !.dragStartRef = NULL,
                         !.lastTouchDist = getTouchDistance(t),
                         !.lastTouchCenter = getTouchCenter(t)]

\* lastTouchDist.current && lastTouchCenter.current: null and 0 are falsy
PinchArmed ==
    /\ refs.lastTouchDist # NULL /\ refs.lastTouchDist # R(0)
    /\ refs.lastTouchCenter # NULL

\* handleTouchMove with two touches
Pinch(t) ==
    IF PinchArmed
    THEN LET currentDist == getTouchDistance(t)
             currentCenter == getTouchCenter(t)
             scale == RDiv(currentDist, refs.lastTouchDist)
             newZoom == ClampZoom(RMul(zoom, scale))
         IN  /\ zoom' = newZoom
             /\ canvasOffset' = OffsetAbout(InCanvas(refs.lastTouchCenter),
                                            InCanvas(currentCenter), newZoom)
             /\ refs' = [refs EXCEPT !.lastTouchDist = currentDist,
                                     !.lastTouchCenter = currentCenter]
    ELSE UNCHANGED <<zoom, canvasOffset, refs>>

\* ------------------------------------------------------------------------
\* Fit to screen (canvasUtils.handleFitScreen)
\* ------------------------------------------------------------------------
RSetMin(S) == CHOOSE m \in S : \A n \in S : RLe(m, n)
RSetMax(S) == CHOOSE m \in S : \A n \in S : RLe(n, m)

\* Math.min(Math.min(scaleX, scaleY), 1.5)
FitZoom(scaleX, scaleY) == RMin(RMin(scaleX, scaleY), FitMaxZoom)

handleFitScreen ==
    LET vis == {k \in 1..Len(layers) : layers[k].visible}
        minX == RSetMin({layers[k].x : k \in vis})
        minY == RSetMin({layers[k].y : k \in vis})
        maxX == RSetMax({RAdd(layers[k].x, layers[k].width) : k \in vis})
        maxY == RSetMax({RAdd(layers[k].y, layers[k].height) : k \in vis})
        contentW == RSub(maxX, minX)
        contentH == RSub(maxY, minY)
        scaleX == RDiv(R(window.innerWidth), RAdd(contentW, R(FitPadding * 2)))
        scaleY == RDiv(R(window.innerHeight), RAdd(contentH, R(FitPadding * 2)))
        newZoom == FitZoom(scaleX, scaleY)
        centerX == RAdd(minX, RDiv(contentW, R(2)))
        centerY == RAdd(minY, RDiv(contentH, R(2)))
    IN  IF Len(layers) = 0
        THEN /\ zoom' = initialZoom(window)
             /\ canvasOffset' = initialOffset(window)
        ELSE IF vis = {}
        THEN UNCHANGED <<zoom, canvasOffset>>
        ELSE /\ zoom' = newZoom
             /\ canvasOffset' =
                  [x |-> RSub(Frac(window.innerWidth, 2), RMul(centerX, newZoom)),
                   y |-> RSub(Frac(window.innerHeight, 2), RMul(centerY, newZoom))]

\* ------------------------------------------------------------------------
\* The events of the canvas wrapper and the toolbar
\* ------------------------------------------------------------------------
\* what a press leaves in the history: the gesture it starts and, for a drag
\* of the selection, the screen point of the press and the selection it found
Began(kind, p) ==
    IF kind = "dragSelection"
    THEN [kind |-> kind, raw |-> NULL, at |-> Pt(R(p[1]), R(p[2])),
          sel |-> <<selection>>]
    ELSE [NoGesture EXCEPT !.kind = kind]

\* onMouseDown: handleStart(e.clientX, e.clientY, e.button)
MouseDown(p, button) ==
    /\ pointer = "up"
    /\ handleStart(R(p[1]), R(p[2]), button)
    /\ pointer' = "mouse"
    /\ gesture' = Began(StartedGesture(R(p[1]), R(p[2]), button), p)
    /\ Did("MouseDown")
    /\ NoAlert
    /\ UNCHANGED <<envVars, uiVars, viewVars, genVars, uploads, nextId>>

\* onMouseDown while another button is held: the browser sends mousedown for
\* every button, and the handler runs handleStart again
MouseDownHeld(p, button) ==
    /\ pointer = "mouse"
    /\ handleStart(R(p[1]), R(p[2]), button)
    /\ Did("MouseDownHeld")
    /\ NoAlert
    /\ UNCHANGED <<envVars, uiVars, viewVars, genVars, uploads, nextId, pointer,
                   gesture>>

\* the raw width and height of the select drag a move continues, NULL if the
\* move does not run the select branch (history only)
RawDrag(cx, cy) ==
    IF MoveBranch = "select"
    THEN Pt(RAbs(RSub(WorldX(cx), refs.dragStartRef[1])),
            RAbs(RSub(WorldY(cy), refs.dragStartRef[2])))
    ELSE gesture.raw

\* onMouseMove: handleMove(e.clientX, e.clientY)
MouseMove(p) ==
    /\ pointer \in {"up", "mouse"}
    /\ handleMove(R(p[1]), R(p[2]))
    /\ gesture' = [gesture EXCEPT !.raw = RawDrag(R(p[1]), R(p[2]))]
    /\ lastOp' = "MouseMove"
    /\ moves' = moves + 1 /\ UNCHANGED <<studioVars, serviceVars>>
    /\ hist' = [NoHist EXCEPT !.sel = <<selection>>, !.gesture = gesture]
    /\ NoAlert
    /\ UNCHANGED <<envVars, uiVars, zoom, draggingLayerId, layerDragOffset,
                   genVars, redoStack, selectedLayerIds, uploads, nextId,
                   pointer>>

\* what a release leaves in the history: the selection and the gesture it ended
Ended(op) ==
    /\ lastOp' = op
    /\ hist' = [NoHist EXCEPT !.sel = <<selection>>, !.gesture = gesture]
    /\ gesture' = IF pointer = "touch2" THEN Lifted ELSE NoGesture
    /\ UNCHANGED <<moves, studioVars, serviceVars>>

\* onMouseUp: handleEnd()
MouseUp ==
    /\ pointer = "mouse"
    /\ handleEnd
    /\ pointer' = "up"
    /\ Ended("MouseUp")
    /\ NoAlert
    /\ UNCHANGED <<envVars, uiVars, viewVars, genVars, layers, redoStack,
                   selectedLayerIds, uploads, nextId>>

\* onMouseLeave: handleEnd(); a held button is released outside the canvas
MouseLeave ==
    /\ pointer \in {"up", "mouse"}
    /\ handleEnd
    /\ pointer' = "up"
    /\ Ended("MouseLeave")
    /\ NoAlert
    /\ UNCHANGED <<envVars, uiVars, viewVars, genVars, layers, redoStack,
                   selectedLayerIds, uploads, nextId>>

\* onDoubleClick (the browser sends it after the second release)
DoubleClick(p) ==
    /\ pointer = "up"
    /\ handleDoubleClick(R(p[1]), R(p[2]))
    /\ Did("DoubleClick")
    /\ NoAlert
    /\ UNCHANGED <<envVars, uiVars, viewVars, dragVars, genVars, layers,
                   redoStack, uploads, nextId, pointer, gesture>>

\* onWheel
Wheel(p, deltaY) ==
    /\ handleWheel(R(p[1]), R(p[2]), deltaY)
    /\ lastOp' = "Wheel"
    /\ moves' = moves + 1 /\ UNCHANGED <<studioVars, serviceVars>>
    /\ hist' = [NoHist EXCEPT !.view = [zoom |-> zoom, offset |-> canvasOffset],
                              !.at = InCanvas(Pt(R(p[1]), R(p[2]))),
                              !.to = InCanvas(Pt(R(p[1]), R(p[2])))]
    /\ NoAlert
    /\ UNCHANGED <<envVars, uiVars, dragVars, genVars, layers, redoStack,
                   selectedLayerIds, selection, uploads, nextId, pointer,
                   gesture>>

\* onTouchStart with one touch: handleStart(touch, 0)
TouchStart(p) ==
    /\ pointer = "up"
    /\ handleStart(R(p[1]), R(p[2]), 0)
    /\ pointer' = "touch1"
    /\ gesture' = Began(StartedGesture(R(p[1]), R(p[2]), 0), p)
    /\ Did("TouchStart")
    /\ NoAlert
    /\ UNCHANGED <<envVars, uiVars, viewVars, genVars, uploads, nextId>>

\* onTouchStart with two touches (a second finger lands, or both at once)
TouchStart2(t) ==
    /\ pointer \in {"up", "touch1"}
    /\ TwoFingerStart(t)
    /\ pointer' = "touch2"
    /\ gesture' = [gesture EXCEPT !.kind =
                     IF gesture.kind \in {"none", "lifted"}
                     THEN "pinch" ELSE gesture.kind]
    /\ Did("TouchStart2")
    /\ NoAlert
    /\ UNCHANGED <<envVars, uiVars, viewVars, genVars, layers, redoStack,
                   selectedLayerIds, selection, draggingLayerId,
                   layerDragOffset, uploads, nextId>>

\* onTouchMove with one touch: handleMove(touch)
TouchMove(p) ==
    /\ pointer = "touch1"
    /\ handleMove(R(p[1]), R(p[2]))
    /\ gesture' = [gesture EXCEPT !.raw = RawDrag(R(p[1]), R(p[2]))]
    /\ lastOp' = "TouchMove"
    /\ moves' = moves + 1 /\ UNCHANGED <<studioVars, serviceVars>>
    /\ hist' = [NoHist EXCEPT !.sel = <<selection>>, !.gesture = gesture]
    /\ NoAlert
    /\ UNCHANGED <<envVars, uiVars, zoom, draggingLayerId, layerDragOffset,
                   genVars, redoStack, selectedLayerIds, uploads, nextId,
                   pointer>>

\* onTouchMove with two touches
TouchMove2(t) ==
    /\ pointer = "touch2"
    /\ Pinch(t)
    /\ lastOp' = IF PinchArmed THEN "Pinch" ELSE "TouchMove2"
    /\ moves' = moves + 1 /\ UNCHANGED <<studioVars, serviceVars>>
    /\ hist' = [NoHist EXCEPT !.view = [zoom |-> zoom, offset |-> canvasOffset],
                              !.at = IF PinchArmed
                                     THEN InCanvas(refs.lastTouchCenter) ELSE NULL,
                              !.to = InCanvas(getTouchCenter(t))]
    /\ NoAlert
    /\ UNCHANGED <<envVars, uiVars, draggingLayerId, layerDragOffset, genVars,
                   layers, redoStack, selectedLayerIds, selection, uploads,
                   nextId, pointer, gesture>>

\* onTouchEnd: handleEnd()
TouchEnd ==
    /\ pointer \in {"touch1", "touch2"}
    /\ handleEnd
    /\ pointer' = IF pointer = "touch2" THEN "touch1" ELSE "up"
    /\ Ended("TouchEnd")
    /\ NoAlert
    /\ UNCHANGED <<envVars, uiVars, viewVars, genVars, layers, redoStack,
                   selectedLayerIds, uploads, nextId>>

\* Toolbar onSelectTool={setSelectedTool}.  The toolbar sits inside the
\* canvas wrapper and its source is not part of the repository files read
\* here: its buttons are taken to change the tool without the wrapper's
\* pointer handlers running (as when a focused button is activated from the
\* keyboard), also while a pointer is down on the canvas
SetTool(t) ==
    /\ t # selectedTool
    /\ selectedTool' = t
    /\ Did("SetTool")
    /\ NoAlert
    /\ UNCHANGED <<envVars, prompt, variationCount, activeModel,
                   referenceImages, viewVars, dragVars, genVars, layers,
                   redoStack, selectedLayerIds, selection, uploads, nextId,
                   pointer, gesture>>

\* Toolbar onFitScreen
FitScreen ==
    /\ handleFitScreen
    /\ Did("FitScreen")
    /\ NoAlert
    /\ UNCHANGED <<envVars, uiVars, dragVars, genVars, layers, redoStack,
                   selectedLayerIds, selection, uploads, nextId, pointer,
                   gesture>>

\* the prompt input's onChange, the variation selector, the model buttons
SetPrompt(text) ==
    /\ text # prompt
    /\ prompt' = text
    /\ Did("SetPrompt")
    /\ NoAlert
    /\ UNCHANGED <<envVars, selectedTool, variationCount, activeModel,
                   referenceImages, viewVars, dragVars, genVars, layers,
                   redoStack, selectedLayerIds, selection, uploads, nextId,
                   pointer, gesture>>

SetVariationCount(n) ==
    /\ n # variationCount
    /\ variationCount' = n
    /\ Did("SetVariationCount")
    /\ NoAlert
    /\ UNCHANGED <<envVars, selectedTool, prompt, activeModel,
                   referenceImages, viewVars, dragVars, genVars, layers,
                   redoStack, selectedLayerIds, selection, uploads, nextId,
                   pointer, gesture>>

SetActiveModel(m) ==
    /\ m # activeModel
    /\ activeModel' = m
    /\ Did("SetActiveModel")
    /\ NoAlert
    /\ UNCHANGED <<envVars, selectedTool, prompt, variationCount,
                   referenceImages, viewVars, dragVars, genVars, layers,
                   redoStack, selectedLayerIds, selection, uploads, nextId,
                   pointer, gesture>>

\* ------------------------------------------------------------------------
\* Remote service helpers (geminiService): getClosestAspectRatio
\* ------------------------------------------------------------------------
\* a ratio is a rational <<n, d>> with d > 0, Infinity (w / 0) or NaN (0 / 0)
Infinity == <<1, 0>>
NaN == <<0, 0>>

\* the fixed table, in the order of the source
AspectRatios ==
    << [key |-> "1:1", val |-> Frac(100, 100)],
       [key |-> "3:4", val |-> Frac(75, 100)],
       [key |-> "4:3", val |-> Frac(133, 100)],
       [key |-> "9:16", val |-> Frac(5625, 10000)],
       [key |-> "16:9", val |-> Frac(177, 100)] >>

\* Math.abs(a.val - ratio) < Math.abs(b.val - ratio): with an infinite ratio
\* both sides are Infinity, with NaN both are NaN, and the test is false
IsCloser(a, b, ratio) ==
    /\ ratio[2] # 0
    /\ RLt(RAbs(RSub(a.val, ratio)), RAbs(RSub(b.val, ratio)))

\* a reducer that also replaces the entry kept so far on equal differences
KeepLatest(prev, curr, ratio) ==
    IF IsCloser(prev, curr, ratio) THEN prev ELSE curr

\* the reducer: (prev, curr) => |curr.val - ratio| < |prev.val - ratio| ? curr : prev
KeepCloser(prev, curr, ratio) ==
    IF IsCloser(curr, prev, ratio) THEN curr ELSE prev

\* ratios.reduce(...) with no initial value: it starts from the first entry
RECURSIVE ReduceRatios(_, _, _)
ReduceRatios(prev, rest, ratio) ==
    IF rest = <<>> THEN prev
    ELSE ReduceRatios(KeepCloser(prev, Head(rest), ratio), Tail(rest), ratio)

getClosestAspectRatio(ratio) ==
    ReduceRatios(Head(AspectRatios), Tail(AspectRatios), ratio).key

\* one call of the function
CallGetClosestAspectRatio ==
    /\ ratioKey = "none"
    /\ ratioKey' = getClosestAspectRatio(ratioArg)
    /\ lastOp' = "getClosestAspectRatio"
    /\ UNCHANGED <<canvasVars, lastAlert, hist, ratioArg, sceneVars, exportVars,
                   serviceVars>>

\* ------------------------------------------------------------------------
\* Studio (StudioMode, SceneRow)
\* ------------------------------------------------------------------------
\* the history every Studio handler leaves; none of them touches the canvas
StudioDid(op) ==
    lastOp' = op /\ hist' = NoHist /\ UNCHANGED <<canvasVars, ratioVars, serviceVars>>

\* String.prototype.trim on the prompts entered here
Trim(text) == IF text = " " THEN "" ELSE text

\* parseInt on the values the duration select offers
parseInt(str) ==
    CASE str = "3" -> 3 [] str = "4" -> 4 [] str = "5" -> 5 [] str = "6" -> 6
      [] str = "7" -> 7 [] str = "8" -> 8 [] str = "9" -> 9 [] str = "10" -> 10

\* scene.shots.filter(s => s.prompt.trim().length > 0)
ValidShots(shots) == SelectSeq(shots, LAMBDA s : Trim(s.prompt) # "")

\* shots.reduce((sum, s) => sum + parseInt(s.duration || '5'), 0)
RECURSIVE TotalDuration(_)
TotalDuration(shots) ==
    IF shots = <<>> THEN 0
    ELSE parseInt(IF Head(shots).duration = "" THEN "5" ELSE Head(shots).duration)
             + TotalDuration(Tail(shots))

\* { ...s, ...updates }
Merged(s, updates) ==
    [f \in DOMAIN s |-> IF f \in DOMAIN updates THEN updates[f] ELSE s[f]]

\* handleUpdateScene: setScenes(prev => prev.map(s => s.id === id ? {...s, ...updates} : s))
handleUpdateScene(prev, id, updates) ==
    [k \in 1..Len(prev) |-> IF prev[k].id = id THEN Merged(prev[k], updates) ELSE prev[k]]

\* FrameSlot setImage of the start frame
SetStartFrame(k) ==
    /\ scenes' = handleUpdateScene(scenes, scenes[k].id,
                     [startFrame |-> <<0>>])
    /\ studioHist' = NoStudioHist
    /\ StudioDid("SetStartFrame")
    /\ NoAlert
    /\ UNCHANGED <<sceneGens, nextSceneId, nextVideo, exportVars>>

\* the shot textarea's onChange
SetShotPrompt(k, j, text) ==
    /\ scenes[k].shots[j].prompt # text
    /\ scenes' = handleUpdateScene(scenes, scenes[k].id,
                     [shots |-> [scenes[k].shots EXCEPT ![j].prompt = text]])
    /\ studioHist' = NoStudioHist
    /\ StudioDid("SetShotPrompt")
    /\ NoAlert
    /\ UNCHANGED <<sceneGens, nextSceneId, nextVideo, exportVars>>

\* the duration select's onChange (disabled while the scene is generating)
SetShotDuration(k, j, d) ==
    /\ ~scenes[k].isGenerating
    /\ scenes[k].shots[j].duration # d
    /\ scenes' = handleUpdateScene(scenes, scenes[k].id,
                     [shots |-> [scenes[k].shots EXCEPT ![j].duration = d]])
    /\ studioHist' = NoStudioHist
    /\ StudioDid("SetShotDuration")
    /\ NoAlert
    /\ UNCHANGED <<sceneGens, nextSceneId, nextVideo, exportVars>>

\* "Adicionar Shot", rendered while scene.shots.length < 6
AddShot(k) ==
    /\ Len(scenes[k].shots) < 6
    /\ scenes' = handleUpdateScene(scenes, scenes[k].id,
                     [shots |-> Append(scenes[k].shots, Shot("", "5"))])
    /\ studioHist' = NoStudioHist
    /\ StudioDid("AddShot")
    /\ NoAlert
    /\ UNCHANGED <<sceneGens, nextSceneId, nextVideo, exportVars>>

\* the variation select's onChange (disabled while the scene is generating)
SetSceneVariationCount(k, n) ==
    /\ ~scenes[k].isGenerating
    /\ scenes[k].variationCount # n
    /\ scenes' = handleUpdateScene(scenes, scenes[k].id,
                     [variationCount |-> n])
    /\ studioHist' = NoStudioHist
    /\ StudioDid("SetSceneVariationCount")
    /\ NoAlert
    /\ UNCHANGED <<sceneGens, nextSceneId, nextVideo, exportVars>>

\* handleSelectVariation: a click on thumbnail idx (0-based) of scene k
handleSelectVariation(k, idx) ==
    /\ idx < Len(scenes[k].videos)
    /\ scenes[k].selectedVideoIndex # idx
    /\ scenes' = handleUpdateScene(scenes, scenes[k].id,
                     [selectedVideoIndex |-> idx])
    /\ studioHist' = NoStudioHist
    /\ StudioDid("handleSelectVariation")
    /\ NoAlert
    /\ UNCHANGED <<sceneGens, nextSceneId, nextVideo, exportVars>>

\* handleAddScene: the new scene starts from the last scene's end frame, or
\* else its start frame
handleAddScene ==
    LET lastScene == scenes[Len(scenes)]
        newStartFrame ==
            IF scenes = <<>> THEN NULL
            ELSE IF lastScene.endFrame # NULL THEN lastScene.endFrame
            ELSE lastScene.startFrame
    IN  /\ scenes' = Append(scenes, NewScene(nextSceneId, newStartFrame))
        /\ nextSceneId' = nextSceneId + 1
        /\ studioHist' = NoStudioHist
        /\ StudioDid("handleAddScene")
        /\ NoAlert
        /\ UNCHANGED <<sceneGens, nextVideo, exportVars>>

\* handleDeleteScene: if (scenes.length <= 1) return
\* a delete that does not test the length of the list
handleDeleteSceneAny(k) ==
    /\ scenes' = SelectSeq(scenes, LAMBDA s : s.id # scenes[k].id)
    /\ studioHist' = NoStudioHist
    /\ StudioDid("handleDeleteScene")
    /\ NoAlert
    /\ UNCHANGED <<sceneGens, nextSceneId, nextVideo, exportVars>>

handleDeleteScene(k) ==
    /\ IF Len(scenes) <= 1 THEN UNCHANGED scenes
       ELSE scenes' = SelectSeq(scenes, LAMBDA s : s.id # scenes[k].id)
    /\ studioHist' = [NoStudioHist EXCEPT
                         !.outcome = IF Len(scenes) <= 1 THEN "refused" ELSE "none"]
    /\ StudioDid("handleDeleteScene")
    /\ NoAlert
    /\ UNCHANGED <<sceneGens, nextSceneId, nextVideo, exportVars>>

\* SceneRow.handleGenerate up to its first await.  The handler is a closure of
\* the render in which the button was clicked: scene, index and the
\* onChainNextScene of that render (which reads that render's scenes) stay
\* what they were for the whole invocation.  The button is disabled while
\* scene.isGenerating or without a start frame, so the handler's own
\* start-frame test never fails.
ClickSceneGenerate(k) ==
    LET scene == scenes[k]
        valid == ValidShots(scene.shots)
    IN  /\ ~scene.isGenerating
        /\ scene.startFrame # NULL
        /\ studioHist' = NoStudioHist
        /\ StudioDid("handleGenerate")
        /\ UNCHANGED <<nextSceneId, nextVideo, exportVars>>
        /\ IF Len(valid) = 0
           THEN /\ lastAlert' = "scene-no-prompt"
                /\ UNCHANGED <<scenes, sceneGens>>
           ELSE IF Len(valid) >= 2 /\ Len(valid) > 6
           THEN /\ lastAlert' = "scene-too-many-shots"
                /\ UNCHANGED <<scenes, sceneGens>>
           ELSE IF Len(valid) >= 2 /\ TotalDuration(valid) > 15
           THEN /\ lastAlert' = "scene-too-long"
                /\ UNCHANGED <<scenes, sceneGens>>
           ELSE /\ NoAlert
                /\ scenes' = handleUpdateScene(scenes, scene.id,
                                 [isGenerating |-> TRUE])
                /\ sceneGens' = Append(sceneGens,
                       [scene |-> scene, scenes |-> scenes, index |-> k,
                        validShots |-> valid, i |-> 0, pc |-> "prepare",
                        endpoint |-> "none", videoUrl |-> 0, produced |-> <<>>])

\* the finally block, and the end of the invocation
SceneFinally(g, outcome) ==
    /\ scenes' = handleUpdateScene(scenes, sceneGens[g].scene.id,
                     [isGenerating |-> FALSE])
    /\ sceneGens' = RemoveAt(sceneGens, g)
    /\ studioHist' = [outcome |-> outcome,
                      sceneId |-> sceneGens[g].scene.id,
                      before |-> sceneGens[g].scenes,
                      produced |-> sceneGens[g].produced,
                      loops |-> sceneGens[g].scene.variationCount]

\* the orientation probe and cropImageToRatio have settled; the loop starts
\* (variationCount is at least 1) and the first remote call is sent
ScenePrepared(g) ==
    /\ sceneGens[g].pc = "prepare"
    /\ sceneGens' = [sceneGens EXCEPT
           ![g].pc = "call",
           ![g].endpoint = IF Len(sceneGens[g].validShots) = 1
                           THEN "generateVideo" ELSE "generateVideoMultiShot"]
    /\ studioHist' = NoStudioHist
    /\ StudioDid("ScenePrepared")
    /\ NoAlert
    /\ UNCHANGED <<scenes, nextSceneId, nextVideo, exportVars>>

\* the start or end frame does not load in cropImageToRatio: its Image has
\* an onload handler only, so the promise never settles and the invocation
\* stays suspended at the await, before the loop and short of the finally
SceneFrameFails(g) ==
    /\ sceneGens[g].pc = "prepare"
    /\ sceneGens' = [sceneGens EXCEPT ![g].pc = "stalled"]
    /\ studioHist' = NoStudioHist
    /\ StudioDid("SceneFrameFails")
    /\ NoAlert
    /\ UNCHANGED <<scenes, nextSceneId, nextVideo, exportVars>>

\* a loop that goes on to the next variation after a throw
SceneCallRetries(g, outcome) ==
    LET r == sceneGens[g]
    IN  /\ r.pc = "call"
        /\ outcome \in {"credits", "error"}
        /\ IF r.i + 1 >= r.scene.variationCount
           THEN SceneFinally(g, outcome)
           ELSE /\ sceneGens' = [sceneGens EXCEPT ![g].i = r.i + 1]
                /\ studioHist' = NoStudioHist
                /\ UNCHANGED scenes
        /\ lastAlert' = "scene-error"
        /\ StudioDid("SceneCallReturns")
        /\ UNCHANGED <<nextSceneId, nextVideo, exportVars>>

\* generateVideo / generateVideoMultiShot returns a URL ("data"), returns
\* null ("empty") or throws
SceneCallReturns(g, outcome) ==
    LET r == sceneGens[g]
        scene == r.scene
        last == r.i + 1 >= scene.variationCount
    IN  /\ r.pc = "call"
        /\ StudioDid("SceneCallReturns")
        /\ UNCHANGED <<nextSceneId, exportVars>>
        /\ CASE outcome = "data" ->
                  /\ scenes' = handleUpdateScene(scenes, scene.id,
                         [videos |-> Append(scene.videos, nextVideo),
                          selectedVideoIndex |->
                              IF scene.selectedVideoIndex = -1 THEN 0
                              ELSE scene.selectedVideoIndex])
                  /\ sceneGens' = [sceneGens EXCEPT
                         ![g].pc = "extract", ![g].videoUrl = nextVideo,
                         ![g].produced = Append(r.produced, nextVideo)]
                  /\ nextVideo' = nextVideo + 1
                  /\ studioHist' = NoStudioHist
                  /\ NoAlert
             [] outcome = "empty" ->
                  /\ UNCHANGED nextVideo
                  /\ NoAlert
                  /\ IF last THEN SceneFinally(g, "done")
                     ELSE /\ sceneGens' = [sceneGens EXCEPT ![g].i = r.i + 1]
                          /\ studioHist' = NoStudioHist
                          /\ UNCHANGED scenes
             [] outcome = "credits" ->
                  /\ UNCHANGED nextVideo
                  /\ lastAlert' = "scene-credits"
                  /\ SceneFinally(g, "credits")
             [] outcome = "error" ->
                  /\ UNCHANGED nextVideo
                  /\ lastAlert' = "scene-error"
                  /\ SceneFinally(g, "error")

\* onChainNextScene of the render the handler was created in
onChainNextScene(r, lastFrame) ==
    LET nextSceneIndex == r.index + 1
    IN  IF nextSceneIndex <= Len(r.scenes)
        THEN /\ scenes' = handleUpdateScene(scenes, r.scenes[nextSceneIndex].id,
                              [startFrame |-> lastFrame])
             /\ UNCHANGED nextSceneId
        ELSE /\ scenes' = Append(scenes, NewScene(nextSceneId, lastFrame))
             /\ nextSceneId' = nextSceneId + 1

\* extractLastFrame resolves with the frame, or with null on error / timeout
SceneFrameExtracted(g, ok) ==
    LET r == sceneGens[g]
    IN  /\ r.pc = "extract"
        /\ IF ok THEN onChainNextScene(r, <<r.videoUrl>>)
           ELSE UNCHANGED <<scenes, nextSceneId>>
        /\ sceneGens' = [sceneGens EXCEPT ![g].pc = "pause"]
        /\ studioHist' = NoStudioHist
        /\ StudioDid(IF ok THEN "onChainNextScene" ELSE "NoLastFrame")
        /\ NoAlert
        /\ UNCHANGED <<nextVideo, exportVars>>

\* the one-second pause is over: next iteration, or the end of the loop
ScenePauseOver(g) ==
    LET r == sceneGens[g]
    IN  /\ r.pc = "pause"
        /\ IF r.i + 1 >= r.scene.variationCount
           THEN SceneFinally(g, "done")
           ELSE /\ sceneGens' = [sceneGens EXCEPT ![g].i = r.i + 1,
                                                  ![g].pc = "call"]
                /\ studioHist' = NoStudioHist
                /\ UNCHANGED scenes
        /\ StudioDid("ScenePauseOver")
        /\ NoAlert
        /\ UNCHANGED <<nextSceneId, nextVideo, exportVars>>

\* ------------------------------------------------------------------------
\* Movie export (useStudioExport)
\* ------------------------------------------------------------------------
\* scenes.filter(s => s.videos.length > 0 && s.selectedVideoIndex !== -1)
ValidScenes(list) ==
    SelectSeq(list, LAMBDA s : Len(s.videos) > 0 /\ s.selectedVideoIndex # -1)

\* scene.videos[scene.selectedVideoIndex]
selectedVideoUrl(scene) == scene.videos[scene.selectedVideoIndex + 1]

\* `Gravando cena ${currentSceneIndex + 1}/${validScenes.length}...`
RecordingStatus(currentSceneIndex, total) ==
    CASE <<currentSceneIndex, total>> = <<0, 1>> -> "Gravando cena 1/1..."
      [] <<currentSceneIndex, total>> = <<0, 2>> -> "Gravando cena 1/2..."
      [] <<currentSceneIndex, total>> = <<1, 2>> -> "Gravando cena 2/2..."
      [] <<currentSceneIndex, total>> = <<0, 3>> -> "Gravando cena 1/3..."
      [] <<currentSceneIndex, total>> = <<1, 3>> -> "Gravando cena 2/3..."
      [] <<currentSceneIndex, total>> = <<2, 3>> -> "Gravando cena 3/3..."

\* the history every export step leaves; none touches the canvas or the scenes
ExportDid(op) ==
    /\ lastOp' = op
    /\ hist' = NoHist
    /\ UNCHANGED <<canvasVars, ratioVars, sceneVars, serviceVars>>

\* playNext up to its first await: the recording is stopped after the last
\* scene, else the scene's selected video is put into the one video element.
\* events is the record of what the video element did so far.
playNext(run, currentSceneIndex, events) ==
    IF currentSceneIndex >= Len(run.validScenes)
    THEN /\ exportRun' = [run EXCEPT !.currentSceneIndex = currentSceneIndex,
                                     !.pc = "stopping", !.src = 0]
         /\ played' = events
         /\ UNCHANGED exportStatus
    ELSE LET url == selectedVideoUrl(run.validScenes[currentSceneIndex + 1])
         IN  /\ exportStatus' =
                    RecordingStatus(currentSceneIndex, Len(run.validScenes))
             /\ exportRun' = [run EXCEPT !.currentSceneIndex = currentSceneIndex,
                                         !.pc = "canplaythrough", !.src = url]
             /\ played' = Append(events, <<"load", url>>)

\* handleExportFullMovie up to its first await.  The button is disabled
\* while isExporting and while no scene has a video.
handleExportFullMovie ==
    LET validScenes == ValidScenes(scenes)
    IN  /\ ~isExporting
        /\ \E k \in 1..Len(scenes) : Len(scenes[k].videos) > 0
        /\ ExportDid("handleExportFullMovie")
        /\ UNCHANGED downloads
        /\ IF Len(validScenes) = 0
           THEN /\ lastAlert' = "export-no-scenes"
                /\ UNCHANGED <<isExporting, exportStatus, exportRun, played>>
           ELSE /\ NoAlert
                /\ isExporting' = TRUE
                /\ exportStatus' = "Detectando dimensões do vídeo..."
                /\ exportRun' = [scenes |-> scenes, validScenes |-> validScenes,
                                 currentSceneIndex |-> 0, pc |-> "loadedmetadata",
                                 src |-> 0]
                /\ played' = <<>>

\* an awaited media event never comes (the element fires error, which has no
\* handler; or play() was refused and the video never ends): the invocation
\* stays suspended
ExportStalls(op) ==
    /\ exportRun' = [exportRun EXCEPT !.pc = "stalled"]
    /\ ExportDid(op)
    /\ NoAlert
    /\ UNCHANGED <<isExporting, exportStatus, downloads, played>>

\* the probe video's metadata: on loadedmetadata the canvas, the context and
\* the recorder are set up and playNext() is called; getContext may return null
ExportMetadata(loaded, ctx) ==
    /\ exportRun # NULL
    /\ exportRun.pc = "loadedmetadata"
    /\ IF ~loaded THEN ExportStalls("ProbeError")
       ELSE IF ~ctx
       THEN \* throw new Error(...): catch
            /\ lastAlert' = "export-error"
            /\ isExporting' = FALSE
            /\ exportStatus' = "Preparando estúdio..."
            /\ exportRun' = NULL
            /\ ExportDid("ExportCatch")
            /\ UNCHANGED <<downloads, played>>
       ELSE /\ playNext(exportRun, 0, played)
            /\ ExportDid("ExportRecording")
            /\ NoAlert
            /\ UNCHANGED <<isExporting, downloads>>

\* await new Promise(resolve => { videoEl.oncanplaythrough = resolve; ... }),
\* then videoEl.play() is called
ExportCanPlayThrough(loaded) ==
    /\ exportRun # NULL
    /\ exportRun.pc = "canplaythrough"
    /\ IF ~loaded THEN ExportStalls("VideoError")
       ELSE /\ exportRun' = [exportRun EXCEPT !.pc = "play"]
            /\ ExportDid("ExportCanPlayThrough")
            /\ NoAlert
            /\ UNCHANGED <<isExporting, exportStatus, downloads, played>>

\* await videoEl.play() settles; a rejection is caught and logged, onended is
\* set either way
ExportPlaySettles(started) ==
    /\ exportRun # NULL
    /\ exportRun.pc = "play"
    /\ IF ~started THEN ExportStalls("PlayRefused")
       ELSE /\ exportRun' = [exportRun EXCEPT !.pc = "ended"]
            /\ played' = Append(played, <<"play", exportRun.src>>)
            /\ ExportDid("ExportPlaying")
            /\ NoAlert
            /\ UNCHANGED <<isExporting, exportStatus, downloads>>

\* an onended handler that passes over a scene
ExportVideoEndedSkips ==
    /\ exportRun # NULL
    /\ exportRun.pc = "ended"
    /\ playNext(exportRun, exportRun.currentSceneIndex + 2,
                Append(played, <<"ended", exportRun.src>>))
    /\ ExportDid("ExportVideoEnded")
    /\ NoAlert
    /\ UNCHANGED <<isExporting, downloads>>

\* videoEl.onended: currentSceneIndex++; playNext()
ExportVideoEnded ==
    /\ exportRun # NULL
    /\ exportRun.pc = "ended"
    /\ playNext(exportRun, exportRun.currentSceneIndex + 1,
                Append(played, <<"ended", exportRun.src>>))
    /\ ExportDid("ExportVideoEnded")
    /\ NoAlert
    /\ UNCHANGED <<isExporting, downloads>>

\* recorder.onstop, 500 ms after the last scene: the file is downloaded
ExportRecorderStops ==
    /\ exportRun # NULL
    /\ exportRun.pc = "stopping"
    /\ downloads' = downloads + 1
    /\ isExporting' = FALSE
    /\ exportStatus' = ""
    /\ exportRun' = NULL
    /\ ExportDid("recorder.onstop")
    /\ NoAlert
    /\ UNCHANGED played

\* ------------------------------------------------------------------------
\* Project history (geminiService: listProjects, saveProject, loadProject)
\* ------------------------------------------------------------------------
MAX_PROJECTS == 10

\* the history every project operation leaves; none touches the editor state
ProjectDid(op) ==
    /\ lastOp' = op
    /\ hist' = NoHist
    /\ NoAlert
    /\ UNCHANGED <<canvasVars, studioVars, refReads, serverVars, decorVars,
                   autosaveVars>>

\* history.findIndex(p => p.id === projectId), 0 for -1
findIndex(history, projectId) ==
    IF \E k \in 1..Len(history) : history[k].id = projectId
    THEN SetMin({k \in 1..Len(history) : history[k].id = projectId})
    ELSE 0

\* while (history.length > MAX_PROJECTS) history.pop()
RECURSIVE PopOldest(_)
PopOldest(history) ==
    IF Len(history) > MAX_PROJECTS
    THEN PopOldest(SubSeq(history, 1, Len(history) - 1))
    ELSE history

\* getHistoryList().sort((a, b) => b.updatedAt - a.updatedAt); the sort is
\* stable
RECURSIVE SortByUpdatedAt(_)
SortByUpdatedAt(history) ==
    IF history = <<>> THEN <<>>
    ELSE LET latest == SetMin({k \in 1..Len(history) :
                          \A j \in 1..Len(history) :
                              history[j].updatedAt <= history[k].updatedAt})
         IN  <<history[latest]>> \o
             SortByUpdatedAt(SubSeq(history, 1, latest - 1) \o
                             SubSeq(history, latest + 1, Len(history)))

listProjects == SortByUpdatedAt(projectHistory)

\* saveProject(..., existingProjectId): projectId is existingProjectId, or a
\* fresh id when there is none (NULL)
saveProject(existingProjectId) ==
    LET history == projectHistory
        now == clock
        projectId == IF existingProjectId # NULL THEN existingProjectId[1]
                     ELSE nextProjectId
        existingIndex == findIndex(history, projectId)
        entry == [id |-> projectId,
                  createdAt |-> IF existingIndex > 0
                                THEN history[existingIndex].createdAt ELSE now,
                  updatedAt |-> now]
        saved == IF existingIndex > 0
                 THEN [history EXCEPT ![existingIndex] = entry]
                 ELSE <<entry>> \o history
        kept == PopOldest(saved)
        removed == SubSeq(saved, Len(kept) + 1, Len(saved))
    IN  /\ projectHistory' = kept
        /\ projectLayers' = (projectLayers \cup {projectId})
                               \ {removed[k].id : k \in 1..Len(removed)}
        /\ nextProjectId' = IF existingProjectId # NULL THEN nextProjectId
                            ELSE nextProjectId + 1
        /\ clock' = clock + 1
        /\ storeHist' = removed
        /\ ProjectDid("saveProject")
        /\ UNCHANGED loads

\* loadProject up to its await: without stored layers it throws
loadProject(projectId) ==
    /\ IF projectId \in projectLayers
       THEN loads' = loads \cup {projectId}
       ELSE UNCHANGED loads
    /\ storeHist' = <<>>
    /\ ProjectDid("loadProject")
    /\ UNCHANGED <<projectHistory, projectLayers, clock, nextProjectId>>

\* loadProject after the downloads: history[idx].updatedAt = Date.now()
ProjectLoaded(projectId) ==
    LET history == projectHistory
        idx == findIndex(history, projectId)
    IN  /\ projectId \in loads
        /\ loads' = loads \ {projectId}
        /\ projectHistory' = IF idx > 0
                             THEN [history EXCEPT ![idx].updatedAt = clock]
                             ELSE history
        /\ clock' = clock + 1
        /\ storeHist' = <<>>
        /\ ProjectDid("ProjectLoaded")
        /\ UNCHANGED <<projectLayers, nextProjectId>>

\* ------------------------------------------------------------------------
\* Credit ledger (Cloud Functions: ensureUserDoc, deductCredits,
\* generateImage, generateVideo, generateVideoMultiShot)
\* ------------------------------------------------------------------------
IMAGE_COST == 1
VIDEO_COST == 10
SPECIAL_EMAIL == "castilho.arq.br@gmail.com"
SPECIAL_CREDITS == 5000

\* the history every server step leaves; none touches the client state
ServerDid(op) ==
    /\ lastOp' = op
    /\ hist' = NoHist
    /\ UNCHANGED <<canvasVars, lastAlert, studioVars, refReads, projectVars,
                   decorVars, autosaveVars>>

CallWith(c, changes) == calls' = [calls EXCEPT ![c] = Merged(calls[c], changes)]

\* throw new HttpsError(code, ...)
Throws(c, code) == CallWith(c, [pc |-> "failed", error |-> code])

\* the entry of a callable function: the auth check, then ensureUserDoc
CallFunction(c, fn, cost, authed, sceneList) ==
    /\ calls[c].pc = "idle"
    /\ IF ~authed
       THEN CallWith(c, [fn |-> fn, pc |-> "failed", error |-> "unauthenticated"])
       ELSE CallWith(c, [fn |-> fn, pc |-> "get", cost |-> cost, scenes |-> sceneList])
    /\ UNCHANGED <<userDoc, authEmail>>
    /\ ServerDid(fn)

generateImage(c, authed) == CallFunction(c, "generateImage", IMAGE_COST, authed, NULL)

generateVideo(c, authed) == CallFunction(c, "generateVideo", VIDEO_COST, authed, NULL)

generateVideoMultiShot(c, authed, sceneList) ==
    CallFunction(c, "generateVideoMultiShot", VIDEO_COST, authed, sceneList)

\* getUserCredits: the auth check, then ensureUserDoc and the reply
getUserCredits(c, authed) == CallFunction(c, "getUserCredits", 0, authed, NULL)

\* where a call goes on when ensureUserDoc has returned
AfterEnsure(c) == IF calls[c].fn = "getUserCredits" THEN "done" ELSE "deduct"

\* ensureUserDoc up to its first await: userRef.get()
ensureUserDocGet(c) ==
    /\ calls[c].pc = "get"
    /\ CallWith(c, [pc |-> IF userDoc = <<>> THEN "set" ELSE AfterEnsure(c)])
    /\ UNCHANGED <<userDoc, authEmail>>
    /\ ServerDid("ensureUserDoc.get")

\* ensureUserDoc after the read found no document: userRef.set({credits: ...})
ensureUserDocSet(c) ==
    /\ calls[c].pc = "set"
    /\ userDoc' = <<IF authEmail = SPECIAL_EMAIL THEN SPECIAL_CREDITS ELSE 0>>
    /\ CallWith(c, [pc |-> AfterEnsure(c)])
    /\ UNCHANGED authEmail
    /\ ServerDid("ensureUserDoc.set")

\* deductCredits without the test of the balance
deductCreditsUnchecked(c) ==
    /\ calls[c].pc = "deduct"
    /\ userDoc # <<>>
    /\ userDoc' = <<userDoc[1] - calls[c].cost>>
    /\ CallWith(c, [pc |-> "body", deducted |-> TRUE, before |-> userDoc[1]])
    /\ UNCHANGED authEmail
    /\ ServerDid("deductCredits")

\* deductCredits: one Firestore transaction (read, test, update)
deductCredits(c) ==
    /\ calls[c].pc = "deduct"
    /\ IF userDoc = <<>>
       THEN Throws(c, "not-found") /\ UNCHANGED userDoc
       ELSE IF userDoc[1] < calls[c].cost
       THEN Throws(c, "resource-exhausted") /\ UNCHANGED userDoc
       ELSE /\ userDoc' = <<userDoc[1] - calls[c].cost>>
            /\ CallWith(c, [pc |-> "body", deducted |-> TRUE, before |-> userDoc[1]])
    /\ UNCHANGED authEmail
    /\ ServerDid("deductCredits")

\* how the body of generateImage ends, by what the Gemini call does
ImagePath(reply) ==
    CASE reply = "image" -> [pc |-> "done", error |-> "none"]
      [] reply = "no-image" -> [pc |-> "refund", error |-> "internal"]
      [] reply = "exception" -> [pc |-> "refund", error |-> "internal"]

\* how the try block of the two video functions ends, by what Fal.ai does
QueuePath(reply) ==
    IF reply = "ok" THEN [pc |-> "done", error |-> "none"]
    ELSE [pc |-> "refund", error |-> "internal"]

\* how the body of generateVideo ends
VideoPath(reply) ==
    IF reply = "no-key" THEN [pc |-> "refund", error |-> "internal"]
    ELSE QueuePath(reply)

\* how the body of generateVideoMultiShot ends
MultiShotPath(sceneList, reply) ==
    IF sceneList = NULL \/ Len(sceneList) < 2
    THEN [pc |-> "refund", error |-> "invalid-argument"]
    ELSE IF Len(sceneList) > 6
    THEN [pc |-> "refund", error |-> "invalid-argument"]
    ELSE IF reply = "no-key"
    THEN [pc |-> "refund", error |-> "internal"]
    ELSE IF TotalDuration(sceneList) > 15
    THEN [pc |-> "failed", error |-> "invalid-argument"]
    ELSE IF TotalDuration(sceneList) < 3
    THEN [pc |-> "failed", error |-> "invalid-argument"]
    ELSE QueuePath(reply)

\* the function body after the deduction, up to its return or its refund
CallBody(c, reply) ==
    /\ calls[c].pc = "body"
    /\ CallWith(c, CASE calls[c].fn = "generateImage" -> ImagePath(reply)
                     [] calls[c].fn = "generateVideo" -> VideoPath(reply)
                     [] calls[c].fn = "generateVideoMultiShot" ->
                            MultiShotPath(calls[c].scenes, reply))
    /\ UNCHANGED <<userDoc, authEmail>>
    /\ ServerDid("body")

\* update({credits: FieldValue.increment(cost)}), then the throw
RefundCredits(c) ==
    /\ calls[c].pc = "refund"
    /\ userDoc' = <<userDoc[1] + calls[c].cost>>
    /\ CallWith(c, [pc |-> "failed", refunds |-> calls[c].refunds + 1])
    /\ UNCHANGED authEmail
    /\ ServerDid("refund")

\* ------------------------------------------------------------------------
\* Autosave (App: the debounced effect, doAutoSave, onAuthStateChanged)
\* ------------------------------------------------------------------------
\* the history every autosave step leaves; none touches the canvas, the
\* studio or the services
AutosaveDid(op) ==
    /\ lastOp' = op
    /\ hist' = NoHist
    /\ UNCHANGED <<canvasVars, lastAlert, studioVars, refReads, serverVars,
                   decorVars>>

\* onAuthStateChanged with a user: setUser({...})
onAuthStateChanged ==
    /\ ~user
    /\ user' = TRUE
    /\ AutosaveDid("onAuthStateChanged")
    /\ UNCHANGED <<isLoadingProjectRef, autoSaveTimer, currentProjectId,
                   effectDeps, savedContent, projectVars>>

\* layers.length > 0 || (scenes.length > 0 && scenes.some(s => s.startFrame
\*    || s.shots.some(sh => sh.prompt.trim())))
hasContent(ls, sc) ==
    \/ Len(ls) > 0
    \/ \E k \in 1..Len(sc) :
          \/ sc[k].startFrame # NULL
          \/ \E j \in 1..Len(sc[k].shots) : Trim(sc[k].shots[j].prompt) # ""

\* the effect's dependencies: layers, scenes, user and doAutoSave, which is
\* a new function when currentProjectId (or one of the others) is new
Deps == <<layers, scenes, user, currentProjectId>>

\* the effect runs after a render in which a dependency is new
EffectDue == effectDeps # Deps

\* the autosave effect: first the cleanup the last run returned (it clears
\* the pending timeout; only a run that set a timeout returns one), then the
\* body with its three early returns
AutoSaveEffect ==
    /\ EffectDue
    /\ effectDeps' = Deps
    /\ IF ~user \/ ~hasContent(layers, scenes)
       THEN autoSaveTimer' = FALSE /\ UNCHANGED isLoadingProjectRef
       ELSE IF isLoadingProjectRef
       THEN autoSaveTimer' = FALSE /\ isLoadingProjectRef' = FALSE
       ELSE autoSaveTimer' = TRUE /\ UNCHANGED isLoadingProjectRef
    /\ AutosaveDid("AutoSaveEffect")
    /\ UNCHANGED <<user, currentProjectId, savedContent, projectVars>>

\* the timeout fires after 3 seconds: doAutoSave, with its guard; saveProject
\* stores the layers and scenes under currentProjectId or a fresh id, which
\* becomes the current one
doAutoSave ==
    /\ autoSaveTimer
    /\ autoSaveTimer' = FALSE
    /\ IF \/ ~user
          \/ (Len(layers) = 0 /\ Len(scenes) <= 1 /\ scenes[1].startFrame = NULL)
          \/ isLoadingProjectRef
       THEN UNCHANGED <<savedContent, currentProjectId, projectVars>>
       ELSE /\ savedContent' = <<layers, scenes>>
            /\ IF currentProjectId # NULL
               THEN UNCHANGED <<currentProjectId, projectVars>>
               ELSE /\ currentProjectId' = <<nextProjectId>>
                    /\ nextProjectId' = nextProjectId + 1
                    /\ UNCHANGED <<projectHistory, projectLayers, loads, clock,
                                   storeHist>>
    /\ AutosaveDid("doAutoSave")
    /\ UNCHANGED <<user, isLoadingProjectRef, effectDeps>>

\* ------------------------------------------------------------------------
\* Polygon zone tool (useDecorZones, createLayerFromPolygon)
\* ------------------------------------------------------------------------
CLOSE_DISTANCE == 15

\* the history every polygon handler leaves (the number of vertices it
\* found); none touches the rest
DecorDid(op) ==
    /\ lastOp' = op
    /\ hist' = [NoHist EXCEPT !.at = <<Len(drawingPoints)>>]
    /\ UNCHANGED <<canvasVars, lastAlert, studioVars, refReads, projectVars,
                   serverVars, autosaveVars>>

\* createLayerFromPolygon: null for fewer than 3 points, and null when the
\* polygon cannot be rendered (no 2d context)
createLayerFromPolygon(points, rendered) ==
    IF Len(points) < 3 THEN NULL
    ELSE IF ~rendered THEN NULL
    ELSE <<[points |-> points]>>

commitPolygon(pts, rendered) ==
    LET layer == createLayerFromPolygon(pts, rendered)
    IN  /\ IF layer # NULL
           THEN /\ decorLayers' = Append(decorLayers, layer[1])
                /\ zoneCount' = zoneCount + 1
           ELSE UNCHANGED <<decorLayers, zoneCount>>
        /\ drawingPoints' = <<>>
        /\ cursorPos' = NULL

\* Math.sqrt((x - first.x) ** 2 + (y - first.y) ** 2) < 15
NearFirst(x, y) ==
    LET first == drawingPoints[1]
    IN  (x - first[1]) * (x - first[1]) + (y - first[2]) * (y - first[2])
            < CLOSE_DISTANCE * CLOSE_DISTANCE

addPoint(x, y, rendered) ==
    /\ IF Len(drawingPoints) >= 3 /\ NearFirst(x, y)
       THEN commitPolygon(drawingPoints, rendered) /\ DecorDid("addPoint.close")
       ELSE /\ drawingPoints' = Append(drawingPoints, <<x, y>>)
            /\ UNCHANGED <<cursorPos, zoneCount, decorLayers>>
            /\ DecorDid("addPoint")

\* a closePolygon that leaves a short polygon on the canvas
closePolygonKeepsShort(rendered) ==
    /\ IF Len(drawingPoints) < 3
       THEN UNCHANGED decorVars
       ELSE commitPolygon(drawingPoints, rendered)
    /\ DecorDid("closePolygon")

closePolygon(rendered) ==
    /\ IF Len(drawingPoints) < 3
       THEN /\ drawingPoints' = <<>>
            /\ cursorPos' = NULL
            /\ UNCHANGED <<zoneCount, decorLayers>>
       ELSE commitPolygon(drawingPoints, rendered)
    /\ DecorDid("closePolygon")

cancelDrawing ==
    /\ drawingPoints' = <<>>
    /\ cursorPos' = NULL
    /\ UNCHANGED <<zoneCount, decorLayers>>
    /\ DecorDid("cancelDrawing")

\* prev.slice(0, -1)
undoLastPoint ==
    /\ drawingPoints' = SubSeq(drawingPoints, 1, Len(drawingPoints) - 1)
    /\ UNCHANGED <<cursorPos, zoneCount, decorLayers>>
    /\ DecorDid("undoLastPoint")

setCursorPos(p) ==
    /\ cursorPos' = p
    /\ UNCHANGED <<drawingPoints, zoneCount, decorLayers>>
    /\ DecorDid("setCursorPos")

\* ------------------------------------------------------------------------
\* Bounds
\* ------------------------------------------------------------------------
\* layer ids handed out (uploads and generated layers)
MaxIds == 2
\* invocations of triggerGeneration / handleUpscale4K in flight at once
MaxInFlight == 2
\* the same, where the layer store's operations interleave with them
MaxInFlightStore == 1
\* file reads pending at once
MaxUploads == 1

\* ------------------------------------------------------------------------
\* Inputs
\* ------------------------------------------------------------------------
\* one uploaded image, 400 x 200, lands centred on world (2000, 2000); the
\* screen point (625, 500) is over it, (100, 100) is over empty canvas
UploadSizes == {<<400, 200>>}
ClickPoints == {<<625, 500>>, <<100, 100>>}
Prompts == {"", "a prompt"}
Variations == {1, 2}
Outcomes == {"data", "empty", "credits", "error"}

Init == InitWith([innerWidth |-> 1250, innerHeight |-> 1000], <<Res1x1, Res16x9>>)

\* the steps of the asynchronous operations, shared by the specifications
Upload ==
    \E sz \in UploadSizes :
        /\ Len(uploads) < MaxUploads /\ nextId + Len(uploads) <= MaxIds
        /\ handleImageUpload(sz[1], sz[2])
UploadLoads == \E k \in 1..Len(uploads) : nextId <= MaxIds /\ ImageLoaded(k, nextId)
GenerationStep ==
    \/ \E k \in 1..Len(gens), ok \in BOOLEAN : SnapshotDone(k, ok)
    \/ \E k \in 1..Len(gens), o \in Outcomes :
          (o = "data" => nextId <= MaxIds) /\ CallReturns(k, o, nextId)
UpscaleStep ==
    \/ \E k \in 1..Len(gens), o \in {"no-snapshot", "no-context", "ok"} :
          UpscaleSnapshotDone(k, o)
    \/ \E k \in 1..Len(gens), ok \in BOOLEAN : UpscaleImageLoaded(k, ok)
    \/ \E k \in 1..Len(gens), o \in Outcomes :
          (o = "data" => nextId <= MaxIds) /\ UpscaleCallReturns(k, o, nextId)

\* ------------------------------------------------------------------------
\* Spec: the layer store with the operations that add and remove layers
\* ------------------------------------------------------------------------
CanStartStore == Len(gens) < MaxInFlightStore

Next ==
    \/ Upload
    \/ UploadLoads
    \/ handleUndo
    \/ handleRedo
    \/ \E id \in LayerIds(layers) : handleDeleteLayer(id)
    \/ handleNewCanvas
    \/ \E p \in ClickPoints : DoubleClick(p)
    \/ \E text \in Prompts : SetPrompt(text)
    \/ \E n \in Variations : SetVariationCount(n)
    \/ CanStartStore /\ ClickGenerate
    \/ CanStartStore /\ PressEnter
    \/ CanStartStore /\ ClickMagicFill
    \/ CanStartStore /\ ClickUpscale
    \/ GenerationStep
    \/ UpscaleStep

Spec == Init /\ [][Next]_vars

\* ------------------------------------------------------------------------
\* SpecGen: the triggers of a generation and the generations in flight
\* ------------------------------------------------------------------------
CanStart == Len(gens) < MaxInFlight

NextGen ==
    \/ Upload
    \/ UploadLoads
    \/ \E p \in ClickPoints : DoubleClick(p)
    \/ \E text \in Prompts : SetPrompt(text)
    \/ \E n \in Variations : SetVariationCount(n)
    \/ CanStart /\ ClickGenerate
    \/ CanStart /\ PressEnter
    \/ CanStart /\ ClickMagicFill
    \/ CanStart /\ ClickUpscale
    \/ GenerationStep
    \/ UpscaleStep

SpecGen == Init /\ [][NextGen]_vars

\* ------------------------------------------------------------------------
\* SpecView: the viewport under wheel, pinch, pan and fit-to-screen
\* ------------------------------------------------------------------------
\* pointer-move and wheel events in one run
MaxMoves == 3

\* projects to load: one image, and two images 25000 world units apart
\* (images land on the viewport centre: the second was uploaded after
\* panning one screen width at zoom 0.05)
ProjectLayers ==
    { <<Layer(1, "image", R(1800), R(1900), R(400), R(200))>>,
      <<Layer(2, "image", R(26800), R(1900), R(400), R(200)),
        Layer(1, "image", R(1800), R(1900), R(400), R(200))>> }

WheelPoints == {<<100, 200>>}
ViewWheelDeltas == {-6908, 693, 1000000}
PanStarts == {<<100, 500>>}
PanPoints == {<<100, 500>>, <<600, 500>>}
\* pairs of touches at whole distances: 500 apart about (450, 600), 1000
\* apart about (450, 600), 1000 apart about (300, 400)
TouchPairs ==
    { <<<<300, 400>>, <<600, 800>>>>,
      <<<<150, 200>>, <<750, 1000>>>>,
      <<<<0, 0>>, <<600, 800>>>> }

CanMove == moves < MaxMoves

NextView ==
    \/ \E ls \in ProjectLayers : handleLoadProject(ls, 1, NULL)
    \/ \E p \in WheelPoints, d \in ViewWheelDeltas :
          CanMove /\ Wheel(p, d)
    \/ \E t \in TouchPairs : TouchStart2(t)
    \/ \E t \in TouchPairs : CanMove /\ TouchMove2(t)
    \/ TouchEnd
    \/ \E p \in PanStarts : MouseDown(p, 1)
    \/ \E p \in PanPoints : CanMove /\ MouseMove(p)
    \/ MouseUp
    \/ FitScreen

SpecView == Init /\ [][NextView]_vars

\* ------------------------------------------------------------------------
\* SpecSel: the selection rectangle under the pointer gestures
\* ------------------------------------------------------------------------
\* the view stays at zoom 1/2, offset (-375, -500): the screen point (cx, cy)
\* shows the world point (2 (cx + 375), 2 (cy + 500)).  From the anchor
\* (100, 100): (250, 175) is a raw drag of 300 x 150, (102, 103) one of 4 x 6,
\* (250, 100) one of 300 x 0, (60, 20) one of 80 x 160 up and to the left;
\* (150, 150) lies inside the rectangles the larger drags leave; (625, 500)
\* is over the uploaded icon
SelResolutionLists == {<<Res1x1, Res16x9>>, <<Res16x9, Res9x16, Res1x1>>}
SelTools == {"select", "move"}
SelStarts == {<<100, 100>>, <<150, 150>>, <<625, 500>>}
SelPoints == {<<250, 175>>, <<102, 103>>, <<250, 100>>, <<60, 20>>}
SelClicks == {<<625, 500>>, <<100, 100>>}
SelTouchStarts == {<<100, 100>>}
SelTouchPoints == {<<102, 103>>, <<250, 175>>}
SelTouchPairs == {<<<<300, 400>>, <<600, 800>>>>}
\* an 8 x 8 icon
IconSizes == {<<8, 8>>}

InitSel ==
    \E r \in SelResolutionLists :
        InitWith([innerWidth |-> 1250, innerHeight |-> 1000], r)

NextSel ==
    \/ \E sz \in IconSizes :
          /\ Len(uploads) < MaxUploads /\ nextId + Len(uploads) <= 1
          /\ handleImageUpload(sz[1], sz[2])
    \/ UploadLoads
    \/ \E t \in SelTools : SetTool(t)
    \/ \E p \in SelStarts : MouseDown(p, 0)
    \/ \E p \in SelPoints : CanMove /\ MouseMove(p)
    \/ MouseUp
    \/ MouseLeave
    \/ \E p \in SelClicks : DoubleClick(p)
    \/ \E p \in SelTouchStarts : TouchStart(p)
    \/ \E p \in SelTouchPoints : CanMove /\ TouchMove(p)
    \/ \E t \in SelTouchPairs : TouchStart2(t)
    \/ TouchEnd

SpecSel == InitSel /\ [][NextSel]_vars

\* ------------------------------------------------------------------------
\* Properties of the generation triggers (SpecGen)
\* ------------------------------------------------------------------------
\* C1: at most one canvas generation is in flight at any time: no trigger of
\* the interface (the Generate, Magic Fill and Upscale buttons, the Enter key
\* of the prompt input) starts a second one while one is running
C1_OneGenerationInFlight == Len(gens) <= 1

\* ------------------------------------------------------------------------
\* Properties of the layer store (Spec)
\* ------------------------------------------------------------------------
\* C2 as stated: from every reachable state, handleUndo immediately followed
\* by handleRedo leaves the layer list exactly as it was before the undo
C2_UndoThenRedo ==
    (lastOp = "handleRedo" /\ hist.undoBase # NULL) => layers = hist.undoBase[1]

\* C2, amended: from every reachable state with at least one layer,
\* handleUndo immediately followed by handleRedo leaves the layer list
\* exactly as it was before the undo
C2_UndoThenRedoOfALayer ==
    (lastOp = "handleRedo" /\ hist.undoBase # NULL /\ hist.undoBase[1] # <<>>)
        => layers = hist.undoBase[1]

\* an undo and redo of the top one of two layers
C2_Witness ==
    /\ lastOp = "handleRedo" /\ hist.undoBase # NULL
    /\ Len(hist.undoBase[1]) = 2 /\ layers = hist.undoBase[1]

\* C3: every operation other than undo and redo that adds or removes layers
\* (a deletion, an upload, a generation or upscale that added a layer, a new
\* blank canvas) leaves the redo stack empty
C3_EditsClearRedo ==
    (\/ lastOp \in {"handleDeleteLayer", "ImageLoaded", "handleNewCanvas"}
     \/ (lastOp = "GenerationDone" /\ hist.at[1] > 0))
        => redoStack = <<>>

\* ------------------------------------------------------------------------
\* Properties of the viewport (SpecView)
\* ------------------------------------------------------------------------
ZoomInRange(z) == RLe(MinZoom, z) /\ RLe(z, MaxZoom)

\* C4: after any single wheel event or pinch move the zoom is within
\* [0.05, 5], whatever it was before
C4_ZoomClampedByWheelAndPinch ==
    lastOp \in {"Wheel", "Pinch"} => ZoomInRange(zoom)

\* a wheel event or pinch move that found the zoom below 0.05
C4_Witness ==
    /\ lastOp \in {"Wheel", "Pinch"}
    /\ RLt(hist.view.zoom, MinZoom)
    /\ ZoomInRange(zoom)

\* C5: in every reachable state (wheel, pinch, pan, fit-to-screen over any
\* layers) the zoom is within [0.05, 5]
C5_ZoomAlwaysInRange == ZoomInRange(zoom)

\* the world point shown at a screen point, and the screen point of a world
\* point, under a zoom and an offset
WorldAt(screen, z, off) ==
    Pt(RDiv(RSub(screen[1], off.x), z), RDiv(RSub(screen[2], off.y), z))
ScreenOf(world, z, off) ==
    Pt(RAdd(RMul(world[1], z), off.x), RAdd(RMul(world[2], z), off.y))

\* C6 as stated: the world point under the cursor (wheel) or under the touch
\* midpoint (pinch) before the change is at the same screen point after it,
\* also when the pinch midpoint moves between frames
C6_ZoomKeepsThePointInPlace ==
    (lastOp \in {"Wheel", "Pinch"})
        => ScreenOf(WorldAt(hist.at, hist.view.zoom, hist.view.offset),
                    zoom, canvasOffset) = hist.at

\* C6, amended: the world point under the cursor before a wheel event is at
\* the cursor after it; the world point under the previous touch midpoint
\* before a pinch move is at the current touch midpoint after it
C6_ZoomCarriesThePoint ==
    (lastOp \in {"Wheel", "Pinch"})
        => ScreenOf(WorldAt(hist.at, hist.view.zoom, hist.view.offset),
                    zoom, canvasOffset) = hist.to

\* a pinch move that changed the zoom while its midpoint moved
C6_Witness ==
    /\ lastOp = "Pinch"
    /\ hist.at # hist.to
    /\ zoom # hist.view.zoom
    /\ ScreenOf(WorldAt(hist.at, hist.view.zoom, hist.view.offset),
                zoom, canvasOffset) = hist.to

\* ------------------------------------------------------------------------
\* Properties of the selection rectangle (SpecSel)
\* ------------------------------------------------------------------------
EndOps == {"MouseUp", "MouseLeave", "TouchEnd"}

\* the entries of a resolution list nearest to the raw ratio rawW / rawH; with
\* rawH = 0 the raw ratio is not a number and no entry is nearer than another
Nearest(resolutions, raw) ==
    LET diff(k) == RAbs(RSub(resolutions[k].ratio, RDiv(raw[1], raw[2])))
    IN  IF raw[2] = R(0) THEN 1..Len(resolutions)
        ELSE {k \in 1..Len(resolutions) :
                \A j \in 1..Len(resolutions) : RLe(diff(k), diff(j))}

\* C7: the rectangle a select-tool drag leaves on release has width / height
\* equal to the ratio of a resolution entry nearest to the raw drag ratio
\* (width = height x ratio, which also reads a rectangle of height 0)
C7_CommittedRatioIsNearestEntry ==
    (/\ lastOp \in EndOps /\ hist.gesture.kind = "select"
     /\ selection # NULL /\ availableResolutions # <<>>)
        => /\ hist.gesture.raw # NULL
           /\ \E k \in Nearest(availableResolutions, hist.gesture.raw) :
                 selection.w = RMul(selection.h, availableResolutions[k].ratio)

\* a committed rectangle whose ratio is not the raw drag's
C7_Witness ==
    /\ lastOp \in EndOps /\ hist.gesture.kind = "select"
    /\ selection # NULL /\ hist.gesture.raw # NULL
    /\ hist.gesture.raw[2] # R(0) /\ selection.h # R(0)
    /\ RDiv(selection.w, selection.h) #
         RDiv(hist.gesture.raw[1], hist.gesture.raw[2])

\* C8 as stated: a raw select-tool drag of 300 x 150 with a 1:1 and a 16:9
\* entry snaps to 16:9 keeping the raw width 300 and recomputing the height
C8_KeepsWidth300 ==
    (/\ lastOp \in EndOps /\ hist.gesture.kind = "select"
     /\ hist.gesture.raw = Pt(R(300), R(150)))
        => /\ selection # NULL
           /\ selection.w = R(300)
           /\ selection.h = RDiv(R(300), Res16x9.ratio)

\* C8, amended: a raw select-tool drag of 300 x 150 with a 1:1 and a 16:9
\* entry snaps to 16:9 keeping the raw height 150 and recomputing the width
\* from it (150 x 1.78 = 267)
C8_KeepsHeight150 ==
    (/\ lastOp \in EndOps /\ hist.gesture.kind = "select"
     /\ hist.gesture.raw = Pt(R(300), R(150)))
        => /\ selection # NULL
           /\ selection.h = R(150)
           /\ selection.w = RMul(R(150), Res16x9.ratio)

\* a released drag of 300 x 150 that left a rectangle 267 wide
C8_Witness ==
    /\ lastOp \in EndOps /\ hist.gesture.kind = "select"
    /\ hist.gesture.raw = Pt(R(300), R(150))
    /\ selection # NULL /\ selection.w = R(267)

TooSmall(sel) == RLt(sel.w, R(MinSelection)) \/ RLt(sel.h, R(MinSelection))

\* C9: a selection drag that ends (release, leaving the canvas, touch end)
\* on a rectangle with w < 10 or h < 10 leaves the selection null, whichever
\* tool is selected at the release
C9_SmallDragLeavesNull ==
    (/\ lastOp \in EndOps
     /\ hist.gesture.kind \in {"select", "dragSelection"}
     /\ hist.sel[1] # NULL /\ TooSmall(hist.sel[1]))
        => selection = NULL

\* C10: with no pointer gesture in progress the selection is null or at
\* least 10 x 10
C10_IdleSelectionIsNullOrLarge ==
    (pointer = "up" /\ selection # NULL) => ~TooSmall(selection)

\* C13: when a remote call of triggerGeneration throws a credit-exhaustion
\* error, whatever the variation count, then on completion the
\* insufficient-credits message has been shown, the invocation has added no
\* layer, the selection is null and the busy flag is false
C13_CreditErrorAddsNoLayer ==
    (lastOp = "GenerationDone" /\ hist.to = <<"credits">>)
        => /\ lastAlert = "insufficient-credits"
           /\ hist.at = <<0>>
           /\ selection = NULL
           /\ ~isGenerating

\* ------------------------------------------------------------------------
\* SpecGenLive: SpecGen where every pending await settles
\* ------------------------------------------------------------------------
\* the step invocation k is waiting for.  Every promise the two functions
\* await settles: the image loads have onload and onerror handlers, the
\* remote calls a timeout
InvocationStep(k) ==
    /\ k <= Len(gens)
    /\ \/ \E ok \in BOOLEAN : SnapshotDone(k, ok)
       \/ \E o \in Outcomes :
             (o = "data" => nextId <= MaxIds) /\ CallReturns(k, o, nextId)
       \/ \E o \in {"no-snapshot", "no-context", "ok"} : UpscaleSnapshotDone(k, o)
       \/ \E ok \in BOOLEAN : UpscaleImageLoaded(k, ok)
       \/ \E o \in Outcomes :
             (o = "data" => nextId <= MaxIds) /\ UpscaleCallReturns(k, o, nextId)

\* one image, a prompt, one or two variations; Enter and the 4K button
LivePrompts == {"a prompt"}
LiveClicks == {<<625, 500>>}

NextLive ==
    \/ Upload
    \/ UploadLoads
    \/ \E p \in LiveClicks : DoubleClick(p)
    \/ \E text \in LivePrompts : SetPrompt(text)
    \/ \E n \in Variations : SetVariationCount(n)
    \/ CanStart /\ PressEnter
    \/ CanStart /\ ClickUpscale
    \/ \E k \in 1..MaxInFlight : InvocationStep(k)

SpecGenLive ==
    Init /\ [][NextLive]_vars /\ \A k \in 1..MaxInFlight : WF_vars(InvocationStep(k))

InFlight(t) == \E k \in 1..Len(gens) : gens[k].ticket = t

\* C15: every invocation of triggerGeneration or handleUpscale4K that started
\* with a selection eventually completes, whether its remote calls succeed
\* or throw, and the step that completes it leaves the busy flag false, the
\* selection null and the generating effect cleared
C15_EveryInvocationCompletes ==
    /\ \A t \in 0..(MaxInFlight - 1) : InFlight(t) ~> ~InFlight(t)
    /\ [][Len(gens') < Len(gens)
            => (~isGenerating' /\ selection' = NULL /\ generatingEffect' = "")]_vars

\* an invocation that has just completed on a throw of its second remote call
C15_Witness ==
    /\ lastOp = "GenerationDone" /\ hist.to = <<"error">> /\ hist.at = <<1>>
    /\ ~isGenerating /\ selection = NULL /\ generatingEffect = ""

\* ------------------------------------------------------------------------
\* SpecBusy: the canvas gestures while a generation is in flight
\* ------------------------------------------------------------------------
BusyWheelDeltas == {693}
BusyStarts == {<<100, 100>>}
BusyPoints == {<<250, 175>>}
BusyTouchPairs ==
    { <<<<300, 400>>, <<600, 800>>>>,
      <<<<150, 200>>, <<750, 1000>>>> }

\* pointer-move and wheel events in one run
MaxBusyMoves == 2
CanMoveBusy == moves < MaxBusyMoves

\* the Magic Fill button is clicked with no pointer gesture in progress
NextBusy ==
    \/ Upload
    \/ UploadLoads
    \/ \E p \in ClickPoints : DoubleClick(p)
    \/ CanStartStore /\ pointer = "up" /\ ClickMagicFill
    \/ GenerationStep
    \/ \E p \in WheelPoints, d \in BusyWheelDeltas : CanMoveBusy /\ Wheel(p, d)
    \/ \E p \in BusyStarts : MouseDown(p, 0)
    \/ \E p \in BusyPoints : CanMoveBusy /\ MouseMove(p)
    \/ MouseUp
    \/ \E t \in BusyTouchPairs : TouchStart2(t)
    \/ \E t \in BusyTouchPairs : CanMoveBusy /\ TouchMove2(t)
    \/ TouchEnd

SpecBusy == Init /\ [][NextBusy]_vars

GestureOps ==
    {"MouseDown", "MouseMove", "MouseUp", "MouseLeave", "DoubleClick", "Wheel",
     "TouchStart", "TouchStart2", "TouchMove", "TouchMove2", "Pinch", "TouchEnd"}

\* C12: while a generation is in flight (busy flag set) no canvas gesture
\* (pan, select drag, selection drag, layer drag, eraser click, wheel zoom,
\* pinch zoom, double-click) changes the viewport, the selection rectangle or
\* the layer list
C12_NoGestureWhileGenerating ==
    [][(isGenerating /\ lastOp' \in GestureOps)
          => UNCHANGED <<zoom, canvasOffset, selection, layers>>]_vars

\* ------------------------------------------------------------------------
\* SpecRatio: getClosestAspectRatio over a grid of ratios
\* ------------------------------------------------------------------------
\* the ratios 0.00, 0.01, ... up to MaxHundredths / 100
MaxHundredths == 300

\* the grid, the ratios midway between two table values (0.65625, 0.875,
\* 1.165; 1.55 is on the grid), a large ratio, and the two values w / 0 gives
RatioInputs ==
    {Frac(k, 100) : k \in 0..MaxHundredths}
        \cup {Frac(65625, 100000), Frac(875, 1000), Frac(1165, 1000)}
        \cup {R(16), Infinity, NaN}

InitRatio ==
    /\ InitCanvas([innerWidth |-> 1250, innerHeight |-> 1000], <<Res1x1, Res16x9>>)
    /\ InitStudio
    /\ InitServices
    /\ ratioArg \in RatioInputs
    /\ ratioKey = "none"

NextRatio == CallGetClosestAspectRatio

SpecRatio == InitRatio /\ [][NextRatio]_vars

\* the first entry of the table among those whose value is nearest to a
\* ratio; no entry is nearer than another to Infinity or to NaN
FirstNearest(ratio) ==
    LET diff(k) == RAbs(RSub(AspectRatios[k].val, ratio))
        all == 1..Len(AspectRatios)
    IN  IF ratio[2] = 0 THEN 1
        ELSE SetMin({k \in all : \A j \in all : RLe(diff(k), diff(j))})

\* C11: getClosestAspectRatio(r) is the key of the entry of {1:1, 3:4, 4:3,
\* 9:16, 16:9} whose value has the minimum absolute difference from r, the
\* first such entry on ties; 1.0 gives 1:1, 1.78 gives 16:9, 0.5 gives 9:16
C11_ClosestKeyFirstOnTies ==
    ratioKey # "none" =>
        /\ ratioKey = AspectRatios[FirstNearest(ratioArg)].key
        /\ ratioArg = R(1) => ratioKey = "1:1"
        /\ ratioArg = Frac(178, 100) => ratioKey = "16:9"
        /\ ratioArg = Frac(1, 2) => ratioKey = "9:16"

\* a call with the ratio midway between 4:3 (1.33) and 16:9 (1.77)
C11_Witness ==
    ratioArg = Frac(155, 100) /\ ratioKey = "4:3"

\* ------------------------------------------------------------------------
\* The Studio storyboard: scene edits and scene generations
\* ------------------------------------------------------------------------
MaxScenes == 2
MaxShots == 2
MaxVideos == 3
MaxSceneGens == 1
MaxSceneId == 2
ShotPrompts == {"", " ", "a shot"}
Durations == {"5", "10"}
SceneVariations == {1, 2}

\* the user edits the storyboard between generations, not during one
Quiet == sceneGens = <<>>
\* "Adicionar Nova Cena" is pressed while few scenes have been created
CanAddScene ==
    /\ Len(scenes) < MaxScenes
    /\ nextSceneId <= MaxSceneId
CanAddShot(k) == Len(scenes[k].shots) < MaxShots
CanGenerateScene(k) ==
    /\ Len(sceneGens) < MaxSceneGens
    /\ nextVideo + scenes[k].variationCount - 1 <= MaxVideos

\* the scene whose shots and settings the user edits
EditedScene == 1

NextStudio ==
    \/ \E k \in 1..Len(scenes) : Quiet /\ scenes[k].startFrame = NULL /\ SetStartFrame(k)
    \/ \E j \in 1..MaxShots, text \in ShotPrompts :
           /\ Quiet /\ j <= Len(scenes[EditedScene].shots)
           /\ SetShotPrompt(EditedScene, j, text)
    \/ \E j \in 1..MaxShots, d \in Durations :
           /\ Quiet /\ j <= Len(scenes[EditedScene].shots)
           /\ SetShotDuration(EditedScene, j, d)
    \/ Quiet /\ CanAddShot(EditedScene) /\ AddShot(EditedScene)
    \/ \E n \in SceneVariations : Quiet /\ SetSceneVariationCount(EditedScene, n)
    \/ \E k \in 1..Len(scenes), idx \in 0..(MaxVideos - 1) :
           Quiet /\ handleSelectVariation(k, idx)
    \/ Quiet /\ CanAddScene /\ handleAddScene
    \/ \E k \in 1..Len(scenes) : Quiet /\ handleDeleteScene(k)
    \/ \E k \in 1..Len(scenes) : CanGenerateScene(k) /\ ClickSceneGenerate(k)
    \/ \E g \in 1..MaxSceneGens : g <= Len(sceneGens) /\ ScenePrepared(g)
    \/ \E g \in 1..MaxSceneGens, outcome \in Outcomes :
           g <= Len(sceneGens) /\ SceneCallReturns(g, outcome)
    \/ \E g \in 1..MaxSceneGens, ok \in BOOLEAN :
           g <= Len(sceneGens) /\ SceneFrameExtracted(g, ok)
    \/ \E g \in 1..MaxSceneGens : g <= Len(sceneGens) /\ ScenePauseOver(g)

SpecStudio == Init /\ [][NextStudio]_vars

\* the scene with the given id, and its place in the list
SceneById(list, id) == list[CHOOSE k \in 1..Len(list) : list[k].id = id]
PlaceOf(list, id) == CHOOSE k \in 1..Len(list) : list[k].id = id

\* C14: a scene generation that fails at a remote call leaves the scene list
\* as it was before the generation started (the isGenerating flag is back to
\* false): videos, selectedVideoIndex, the next scene's startFrame and the
\* number of scenes are unchanged
C14_FailedSceneGenerationChangesNothing ==
    studioHist.outcome \in {"credits", "error"} => scenes = studioHist.before

\* C16: while a remote video call is in flight, a scene with one shot is not
\* on the multi-shot endpoint, and no scene with two or more shots whose
\* durations sum to more than 15 seconds has a call in flight at all
C16_ShotCountAndDurationGate ==
    \A g \in 1..Len(sceneGens) :
        sceneGens[g].pc = "call" =>
            LET shots == sceneGens[g].scene.shots
            IN  /\ Len(shots) = 1 => sceneGens[g].endpoint = "generateVideo"
                /\ ~(Len(shots) >= 2 /\ TotalDuration(shots) > 15)

\* C17: after a generation whose n calls all returned a video, the scene's
\* videos are the ones it had before followed by the n new ones in order,
\* and selectedVideoIndex is 0 if it was -1 and else what it was
C17_AllVariationsAppended ==
    (studioHist.outcome = "done" /\ Len(studioHist.produced) = studioHist.loops) =>
        LET was == SceneById(studioHist.before, studioHist.sceneId)
            now == SceneById(scenes, studioHist.sceneId)
        IN  /\ now.videos = was.videos \o studioHist.produced
            /\ now.selectedVideoIndex =
                   IF was.selectedVideoIndex = -1 THEN 0 ELSE was.selectedVideoIndex

\* C18: an extracted last frame goes into the start frame of the scene that
\* follows the generating scene in the current list, a scene is created only
\* when none follows, and a whole generation creates at most one scene
C18_ChainsIntoFollowingScene ==
    /\ [][studioHist'.outcome # "none" =>
                Len(scenes') <= Len(studioHist'.before) + 1]_vars
    /\ [][lastOp' = "onChainNextScene" =>
            LET r == sceneGens[1]
                place == PlaceOf(scenes, r.scene.id)
            IN  IF place < Len(scenes)
                THEN /\ Len(scenes') = Len(scenes)
                     /\ scenes'[place + 1].startFrame = <<r.videoUrl>>
                ELSE Len(scenes') = Len(scenes) + 1]_vars

\* ------------------------------------------------------------------------
\* The movie export over the scene lists a project can hold
\* ------------------------------------------------------------------------
MaxExportScenes == 3
MaxDownloads == 1

\* a stored scene: its videos (numbered by scene) and the selected index
StoredScene(id, count, selected) ==
    [NewScene(id, <<0>>) EXCEPT
        !.videos = [v \in 1..count |-> 10 * id + v],
        !.selectedVideoIndex = selected]

\* the scene lists handleLoadProject installs
LoadedScenes ==
    UNION {[1..n -> {<<count, selected>> \in (0..2) \X (-1..1) : selected < count}]
              : n \in 1..MaxExportScenes}

InitExport ==
    /\ InitCanvas([innerWidth |-> 1250, innerHeight |-> 1000], <<Res1x1, Res16x9>>)
    /\ InitServices
    /\ ratioArg = NULL /\ ratioKey = "none"
    /\ \E loaded \in LoadedScenes :
           /\ scenes = [k \in 1..Len(loaded) |->
                           StoredScene(k, loaded[k][1], loaded[k][2])]
           /\ nextSceneId = Len(loaded) + 1
    /\ sceneGens = <<>> /\ nextVideo = 1 /\ studioHist = NoStudioHist
    /\ isExporting = FALSE /\ exportStatus = "" /\ exportRun = NULL
    /\ downloads = 0 /\ played = <<>>

NextExport ==
    \/ downloads < MaxDownloads /\ handleExportFullMovie
    \/ \E loaded \in BOOLEAN, ctx \in BOOLEAN : ExportMetadata(loaded, ctx)
    \/ \E loaded \in BOOLEAN : ExportCanPlayThrough(loaded)
    \/ \E started \in BOOLEAN : ExportPlaySettles(started)
    \/ ExportVideoEnded
    \/ ExportRecorderStops

SpecExport == InitExport /\ [][NextExport]_vars

\* what one video element does when it plays the given scenes one after the
\* other: each scene's selected video is loaded, played and ended in turn
RECURSIVE PlayedInOrder(_)
PlayedInOrder(list) ==
    IF list = <<>> THEN <<>>
    ELSE LET url == Head(list).videos[Head(list).selectedVideoIndex + 1]
         IN  <<<<"load", url>>, <<"play", url>>, <<"ended", url>>>>
                 \o PlayedInOrder(Tail(list))

Qualifying(list) ==
    SelectSeq(list, LAMBDA s : s.videos # <<>> /\ s.selectedVideoIndex >= 0)

IsPrefix(s, t) == Len(s) <= Len(t) /\ s = SubSeq(t, 1, Len(s))

\* C19: during an export the qualifying scenes are played in scene-list
\* order, each once, and a video is loaded only after the one before it has
\* ended; when the file is downloaded every qualifying scene has been played
C19_ScenesPlayedInOrderOnce ==
    /\ exportRun # NULL =>
           IsPrefix(played, PlayedInOrder(Qualifying(exportRun.scenes)))
    /\ lastOp = "recorder.onstop" => played = PlayedInOrder(Qualifying(scenes))

C19_Witness ==
    /\ lastOp = "recorder.onstop"
    /\ downloads = 1
    /\ Len(scenes) = 3
    /\ Len(Qualifying(scenes)) = 2
    /\ played = <<<<"load", 12>>, <<"play", 12>>, <<"ended", 12>>,
                  <<"load", 31>>, <<"play", 31>>, <<"ended", 31>>>>

ExportFailures == {"ExportCatch", "ProbeError", "VideoError", "PlayRefused"}

\* C20: an export that fails (no qualifying scene, no drawing context, a video
\* that does not load or play) shows a message, downloads nothing and leaves
\* isExporting false and the status text empty
C20_FailedExportReturnsToIdle ==
    [][(lastOp' \in ExportFailures \/ lastAlert' = "export-no-scenes") =>
           /\ lastAlert' # "none"
           /\ downloads' = downloads
           /\ ~isExporting'
           /\ exportStatus' = ""]_vars

\* ------------------------------------------------------------------------
\* SpecPick: the layer picked by a press or a double-click
\* ------------------------------------------------------------------------
\* two uploads, 400 x 200 and 200 x 400, land centred on world (2000, 2000)
\* and overlap in a 200 x 200 square.  Screen (625, 500) is over both,
\* (550, 500) over the wide one only, (625, 425) over the tall one only and
\* (100, 100) over empty canvas.
PickSizes == {<<400, 200>>, <<200, 400>>}
PickPoints == {<<625, 500>>, <<550, 500>>, <<625, 425>>, <<100, 100>>}
PickTools == {"select", "move", "eraser"}

NextPick ==
    \/ \E sz \in PickSizes :
          /\ Len(uploads) < MaxUploads /\ nextId + Len(uploads) <= MaxIds
          /\ handleImageUpload(sz[1], sz[2])
    \/ UploadLoads
    \/ \E id \in LayerIds(layers), field \in {"visible", "locked"} :
          pointer = "up" /\ handleUpdateLayer(id, field)
    \/ \E t \in PickTools : pointer = "up" /\ SetTool(t)
    \/ \E p \in PickPoints : MouseDown(p, 0)
    \/ MouseUp
    \/ \E p \in PickPoints : DoubleClick(p)

SpecPick == Init /\ [][NextPick]_vars

\* the topmost eligible layer at a world point: index 0 of the list is drawn
\* last, so it is the smallest index among the layers that qualify; 0 if none
TopmostAt(ls, x, y, unlockedOnly) ==
    LET eligible == {k \in 1..Len(ls) :
                        /\ Contains(ls[k], x, y)
                        /\ ls[k].visible
                        /\ (unlockedOnly => ~ls[k].locked)}
    IN  IF eligible = {} THEN 0 ELSE SetMin(eligible)

\* C21: the layer picked by the move tool, the eraser and a double-click is
\* the topmost eligible layer containing the point, the one with the smallest
\* index among the visible (and, for move and eraser, unlocked) layers there
C21_PicksTopmostLayer ==
    [][\A p \in PickPoints :
          LET x == WorldX(R(p[1]))
              y == WorldY(R(p[2]))
              top == TopmostAt(layers, x, y, TRUE)
              topVisible == TopmostAt(layers, x, y, FALSE)
          IN  /\ (DoubleClick(p) /\ topVisible # 0) =>
                     selectedLayerIds' = {layers[topVisible].id}
              /\ (MouseDown(p, 0) /\ selectedTool = "move" /\ top # 0) =>
                     draggingLayerId' = <<layers[top].id>>
              /\ (MouseDown(p, 0) /\ selectedTool = "eraser" /\ top # 0) =>
                     layers' = WithoutLayer(layers, layers[top].id)]_vars

\* ------------------------------------------------------------------------
\* SpecRefs: the reference images
\* ------------------------------------------------------------------------
\* file reads of references and pasted images pending at once
MaxRefReads == 2
\* image items in one paste event
MaxPasteItems == 2
MAX_REFERENCES == 10

NextRefs ==
    \/ Upload
    \/ UploadLoads
    \/ Len(refReads) < MaxRefReads /\ handleReferenceUpload
    \/ \E items \in 1..MaxPasteItems, sz \in UploadSizes :
          /\ Len(refReads) + items <= MaxRefReads
          /\ handleGlobalPaste(items, sz[1], sz[2])
    \/ \E k \in 1..MaxRefReads, promptFocused \in BOOLEAN :
          /\ k <= Len(refReads)
          /\ (promptFocused \/ Len(uploads) < MaxUploads)
          /\ ReferenceRead(k, promptFocused)
    \/ \E index \in {0} : referenceImages > 0 /\ handleRemoveReference(index)
    \/ \E id \in LayerIds(layers) : handleUseLayerAsReference(id)

SpecRefs == Init /\ [][NextRefs]_vars

\* C22: the reference image set never holds more than 10 images
C22_AtMostTenReferences == referenceImages <= MAX_REFERENCES

\* ------------------------------------------------------------------------
\* SpecProjects: the project history under saves, re-saves and loads
\* ------------------------------------------------------------------------
MaxClock == 13
\* the projects that are saved again and loaded
ReopenedProjects == {1}

NextProjects ==
    \/ clock <= MaxClock /\ saveProject(NULL)
    \/ \E id \in ReopenedProjects :
          clock <= MaxClock /\ id < nextProjectId /\ saveProject(<<id>>)
    \/ \E id \in ReopenedProjects : id < nextProjectId /\ id \notin loads /\ loadProject(id)
    \/ \E id \in ReopenedProjects : clock <= MaxClock /\ ProjectLoaded(id)

SpecProjects == Init /\ [][NextProjects]_vars

\* C23: the projects a save evicts are the oldest ones in list() order: no
\* project that stays was updated before an evicted one
C23_EvictsLeastRecentlyUpdated ==
    \A r \in 1..Len(storeHist), k \in 1..Len(projectHistory) :
        storeHist[r].updatedAt < projectHistory[k].updatedAt

\* ------------------------------------------------------------------------
\* The credit ledger under concurrent calls of one user
\* ------------------------------------------------------------------------
\* balances a user document can hold when the calls start
StartCredits == {0, 1, 10, 11, 20}
Emails == {SPECIAL_EMAIL, "user@example.com"}
\* request.data.scenes: missing, one scene, 10 s, 20 s, seven scenes
SceneLists == {NULL, <<Shot("a shot", "5")>>, <<Shot("a shot", "5"), Shot("a shot", "5")>>,
               <<Shot("a shot", "10"), Shot("a shot", "10")>>,
               <<Shot("a shot", "5"), Shot("a shot", "5"), Shot("a shot", "5"), Shot("a shot", "5"), Shot("a shot", "5"),
                 Shot("a shot", "5"), Shot("a shot", "5")>>}
ImageReplies == {"image", "no-image", "exception"}
VideoReplies == {"ok", "no-key", "submit-failed", "job-failed", "result-failed",
                 "no-video-url", "download-failed", "exception"}
Replies(fn) == IF fn = "generateImage" THEN ImageReplies ELSE VideoReplies

InitCredits ==
    /\ InitCanvas([innerWidth |-> 1250, innerHeight |-> 1000], <<Res1x1, Res16x9>>)
    /\ InitStudio
    /\ InitStores
    /\ ratioArg = NULL
    /\ ratioKey = "none"
    /\ InitDecor
    /\ InitAutosave
    /\ \E doc \in {<<>>} \cup {<<n>> : n \in StartCredits}, email \in Emails :
           InitServer(doc, email)

NextCredits ==
    \/ \E c \in 1..MaxCalls, authed \in BOOLEAN : generateImage(c, authed)
    \/ \E c \in 1..MaxCalls, authed \in BOOLEAN : generateVideo(c, authed)
    \/ \E c \in 1..MaxCalls, authed \in BOOLEAN, sceneList \in SceneLists :
           generateVideoMultiShot(c, authed, sceneList)
    \/ \E c \in 1..MaxCalls : ensureUserDocGet(c)
    \/ \E c \in 1..MaxCalls : ensureUserDocSet(c)
    \/ \E c \in 1..MaxCalls : deductCredits(c)
    \/ \E c \in 1..MaxCalls : \E reply \in Replies(calls[c].fn) : CallBody(c, reply)
    \/ \E c \in 1..MaxCalls : RefundCredits(c)

SpecCredits == InitCredits /\ [][NextCredits]_vars

\* C24: a call that deducted credits and failed has refunded its cost exactly
\* once, and when no other call was made the balance is what it was before
C24_FailedCallIsRefundedOnce ==
    \A c \in 1..MaxCalls :
        (calls[c].pc = "failed" /\ calls[c].deducted) =>
            /\ calls[c].refunds = 1
            /\ (\A o \in 1..MaxCalls \ {c} : calls[o].pc = "idle") =>
                   userDoc = <<calls[c].before>>

\* C25: the balance is never negative, and a call is past deductCredits only
\* if the balance it decremented was at least its cost
C25_DeductionIsAtomic ==
    /\ userDoc # <<>> => userDoc[1] >= 0
    /\ \A c \in 1..MaxCalls :
           calls[c].deducted => calls[c].before >= calls[c].cost

\* two concurrent calls met at a balance that covers only one of them: one
\* decremented it, the other was refused
C25_Witness ==
    \E c, o \in 1..MaxCalls :
        /\ calls[c].deducted /\ calls[c].pc = "body"
        /\ calls[o].error = "resource-exhausted"
        /\ calls[c].before >= calls[o].cost
        /\ userDoc[1] < calls[o].cost

C28_LocksAfterFiveScreenPixels ==
    [][\A p \in SelPoints \cup SelTouchPoints :
          (/\ MouseMove(p) \/ TouchMove(p)
           /\ MoveBranch = "selection" /\ gesture.kind = "dragSelection"
           /\ refs.dragAxisRef = "none")
          => LET far == \/ Abs(p[1] - gesture.at[1][1]) > DragThreshold
                        \/ Abs(p[2] - gesture.at[2][1]) > DragThreshold
             IN  /\ (refs'.dragAxisRef # "none") <=> far
                 /\ (selection' # selection) <=> far]_vars

\* ------------------------------------------------------------------------
\* SpecModes: the interaction modes under mouse buttons, fingers and tools
\* ------------------------------------------------------------------------
\* the view stays near zoom 1/2: (625, 500) is over the uploaded image and,
\* after a double click on it, inside the selection; (650, 520) is a move of
\* 25 x 20 screen pixels from there
ModeTools == {"select", "hand", "move"}
ModeStarts == {<<625, 500>>}
ModePoints == {<<650, 520>>}
ModeTouchPairs == {<<<<300, 400>>, <<600, 800>>>>}
ModePinchPairs == {<<<<300, 400>>, <<900, 1200>>>>}
\* the buttons pressed while another is held: middle and right
HeldButtons == {1, 2}
MaxModeMoves == 2
CanMoveModes == moves < MaxModeMoves

NextModes ==
    \/ \E sz \in UploadSizes :
          /\ Len(uploads) < MaxUploads /\ nextId + Len(uploads) <= 1
          /\ handleImageUpload(sz[1], sz[2])
    \/ UploadLoads
    \/ \E t \in ModeTools : SetTool(t)
    \/ \E p \in ModeStarts, button \in {0, 1} : MouseDown(p, button)
    \/ \E p \in ModeStarts, button \in HeldButtons : MouseDownHeld(p, button)
    \/ \E p \in ModePoints : CanMoveModes /\ MouseMove(p)
    \/ MouseUp
    \/ \E p \in ModeStarts : DoubleClick(p)
    \/ \E p \in ModeStarts : TouchStart(p)
    \/ \E p \in ModePoints : CanMoveModes /\ TouchMove(p)
    \/ \E t \in ModeTouchPairs : TouchStart2(t)
    \/ \E t \in ModePinchPairs : CanMoveModes /\ TouchMove2(t)
    \/ TouchEnd

SpecModes == Init /\ [][NextModes]_vars

\* the modes, by the flags handleStart sets and handleMove tests
Panning == refs.isDraggingRef /\ (refs.isMiddlePanning \/ selectedTool = "hand")
Selecting ==
    refs.isDraggingRef /\ ~refs.isMiddlePanning /\ selectedTool = "select"
DraggingSelection == refs.isDraggingSelectionRef
DraggingLayer == refs.isDraggingLayerRef
ActiveModes ==
    {mode \in {"panning", "selecting", "dragging-selection", "dragging-layer"} :
        CASE mode = "panning" -> Panning
          [] mode = "selecting" -> Selecting
          [] mode = "dragging-selection" -> DraggingSelection
          [] mode = "dragging-layer" -> DraggingLayer}

\* C26: in every reachable state at most one of panning, selecting,
\* dragging-selection and dragging-layer is active
C26_AtMostOneMode == Cardinality(ActiveModes) <= 1

\* all drag state is as after construction
DragReset == refs = InitRefs /\ draggingLayerId = NULL /\ layerDragOffset = NULL

\* C29: when one of two fingers is lifted all drag state is reset, and until
\* the next touch start it stays reset and the moves of the remaining finger
\* change neither the viewport, nor the selection, nor any layer
C29_TwoToOneResetsDrag ==
    [][/\ gesture'.kind = "lifted" => DragReset'
       /\ (gesture.kind = "lifted" /\ lastOp' = "TouchMove")
          => UNCHANGED <<zoom, canvasOffset, selection, layers>>]_vars

\* after a pinch that began as a drag, the remaining finger has moved
C29_Witness ==
    /\ lastOp = "TouchMove" /\ gesture.kind = "lifted"
    /\ hist.gesture.kind = "lifted"
    /\ selection # NULL /\ layers # <<>>
    /\ zoom # initialZoom(window)

\* ------------------------------------------------------------------------
\* Properties of the generation loop (SpecBusy)
\* ------------------------------------------------------------------------
\* C30: a successful iteration of an image generation puts exactly one new
\* layer in front of the layer list, placed and sized as the selection the
\* invocation captured when it started, keeps the other layers in their order,
\* and makes the new layer the only selected layer
C30_IterationPrependsLayer ==
    [][\A k \in 1..Len(gens) :
          CallReturns(k, "data", nextId)
          => LET sel == gens[k].sel
                 new == Head(layers')
             IN  /\ Len(layers') = Len(layers) + 1
                 /\ Tail(layers') = layers
                 /\ new.id \notin LayerIds(layers)
                 /\ new.x = sel.x /\ new.y = sel.y
                 /\ new.width = sel.w /\ new.height = sel.h
                 /\ selectedLayerIds' = {new.id}]_vars

\* a generation has put its layer in front of an uploaded one, at a selection
\* drawn elsewhere
C30_Witness ==
    /\ lastOp = "GenerationDone" /\ hist.to = <<"data">>
    /\ Len(layers) = 2 /\ selectedLayerIds = {layers[1].id}
    /\ layers[1].type = "generation" /\ layers[2].type = "image"
    /\ layers[1].x # layers[2].x

\* ------------------------------------------------------------------------
\* SpecVideo: canvas generations under both models
\* ------------------------------------------------------------------------
NextVideo ==
    \/ Upload
    \/ UploadLoads
    \/ \E p \in ClickPoints : DoubleClick(p)
    \/ \E n \in Variations : SetVariationCount(n)
    \/ \E model \in Models : SetActiveModel(model)
    \/ \E id \in LayerIds(layers) : referenceImages < 1 /\ handleUseLayerAsReference(id)
    \/ \E index \in 1..referenceImages : handleRemoveReference(index)
    \/ \E text \in Prompts : SetPrompt(text)
    \/ CanStartStore /\ ClickGenerate
    \/ CanStartStore /\ PressEnter
    \/ GenerationStep

SpecVideo == Init /\ [][NextVideo]_vars

\* C31: with the video model, an invocation of triggerGeneration makes one
\* remote call, to the video endpoint, whatever variationCount is and whether
\* or not there is a snapshot or a reference image; when the call succeeds
\* it adds exactly one video layer
C31_VideoModelCallsVideoEndpoint ==
    [][\A k \in 1..Len(gens), o \in Outcomes :
          (gens[k].kind = "generate" /\ gens[k].video /\ CallReturns(k, o, nextId))
          => /\ Endpoint(gens[k]) = "video"
             /\ gens[k].calls = 0 /\ Len(gens') = Len(gens) - 1
             /\ o = "data" => /\ Len(layers') = Len(layers) + 1
                              /\ Head(layers').type = "video"]_vars

\* ------------------------------------------------------------------------
\* SpecRetry: remote calls that throw, on the canvas and in the Studio
\* ------------------------------------------------------------------------
\* the App shows one mode at a time: the canvas is worked on while the Studio
\* is as constructed, the Studio while the canvas is
StudioUntouched == scenes = InitialScenes /\ sceneGens = <<>> /\ nextVideo = 1
CanvasUntouched == layers = <<>> /\ uploads = <<>> /\ gens = <<>> /\ prompt = ""

NextRetry ==
    \/ StudioUntouched /\ Upload
    \/ StudioUntouched /\ UploadLoads
    \/ \E p \in ClickPoints : StudioUntouched /\ DoubleClick(p)
    \/ \E text \in Prompts : StudioUntouched /\ SetPrompt(text)
    \/ \E n \in Variations : StudioUntouched /\ SetVariationCount(n)
    \/ StudioUntouched /\ CanStartStore /\ ClickGenerate
    \/ GenerationStep
    \/ CanvasUntouched /\ Quiet /\ scenes[1].startFrame = NULL /\ SetStartFrame(1)
    \/ CanvasUntouched /\ Quiet /\ SetShotPrompt(1, 1, "a shot")
    \/ \E n \in SceneVariations :
           CanvasUntouched /\ Quiet /\ SetSceneVariationCount(1, n)
    \/ CanvasUntouched /\ CanGenerateScene(1) /\ ClickSceneGenerate(1)
    \/ \E g \in 1..Len(sceneGens) : ScenePrepared(g)
    \/ \E g \in 1..Len(sceneGens), outcome \in Outcomes : SceneCallReturns(g, outcome)
    \/ \E g \in 1..Len(sceneGens), ok \in BOOLEAN : SceneFrameExtracted(g, ok)
    \/ \E g \in 1..Len(sceneGens) : ScenePauseOver(g)

SpecRetry == Init /\ [][NextRetry]_vars

Thrown == {"credits", "error"}

\* C32: a remote call that throws ends its invocation, on the canvas and in
\* the Studio: the invocation makes no further call, the variations left are
\* skipped, and no layer or video is added
C32_NoRetryAfterThrow ==
    [][/\ \A k \in 1..Len(gens), o \in Thrown :
             (gens[k].kind = "generate" /\ CallReturns(k, o, nextId))
             => /\ \A j \in 1..Len(gens') : gens'[j].ticket # gens[k].ticket
                /\ layers' = layers
       /\ \A g \in 1..Len(sceneGens), o \in Thrown :
             SceneCallReturns(g, o)
             => /\ sceneGens' = RemoveAt(sceneGens, g)
                /\ \A k \in 1..Len(scenes) : scenes'[k].videos = scenes[k].videos
                /\ nextVideo' = nextVideo]_vars

\* a Studio generation of two variations has ended on a throw of its first
\* call, with no video
C32_Witness ==
    /\ studioHist.outcome = "error" /\ studioHist.loops = 2
    /\ studioHist.produced = <<>>
    /\ nextVideo = 1
    /\ sceneGens = <<>> /\ ~scenes[1].isGenerating

\* ------------------------------------------------------------------------
\* SpecDecor: the polygon zone tool
\* ------------------------------------------------------------------------
\* (10, 0) is within 15 of (0, 0); (9, 12) is at exactly 15
DecorPoints == {<<0, 0>>, <<10, 0>>, <<9, 12>>, <<100, 100>>}
MaxVertices == 4
MaxZones == 1

NextDecor ==
    \/ \E p \in DecorPoints, rendered \in BOOLEAN :
           /\ Len(drawingPoints) < MaxVertices
           /\ zoneCount < MaxZones \/ Len(drawingPoints) < 2
           /\ addPoint(p[1], p[2], rendered)
    \/ \E rendered \in BOOLEAN :
           /\ zoneCount < MaxZones \/ Len(drawingPoints) < 3
           /\ closePolygon(rendered)
    \/ cancelDrawing
    \/ undoLastPoint
    \/ cursorPos = NULL /\ setCursorPos(<<50, 50>>)

SpecDecor == Init /\ [][NextDecor]_vars

\* C33: a layer is created only from a polygon of at least 3 vertices; after
\* every close (a click near the first vertex once 3 exist, or Enter) and
\* every cancel no vertex is in progress; Enter with fewer than 3 vertices
\* discards them without creating a layer
C33_PolygonNeedsThreeVertices ==
    [][/\ \A k \in 1..Len(decorLayers') : Len(decorLayers'[k].points) >= 3
       /\ lastOp' \in {"addPoint.close", "closePolygon", "cancelDrawing"}
          => drawingPoints' = <<>>
       /\ (lastOp' = "closePolygon" /\ Len(drawingPoints) < 3)
          => decorLayers' = decorLayers
       /\ (lastOp' = "addPoint" /\ Len(drawingPoints) >= 3)
          => ~NearFirst(drawingPoints'[Len(drawingPoints')][1],
                        drawingPoints'[Len(drawingPoints')][2])]_vars

\* Enter has discarded two vertices after a polygon of three was created
C33_Witness ==
    /\ lastOp = "closePolygon" /\ hist.at = <<2>>
    /\ drawingPoints = <<>> /\ cursorPos = NULL
    /\ Len(decorLayers) = 1 /\ zoneCount = 1
    /\ Len(decorLayers[1].points) = 3

\* ------------------------------------------------------------------------
\* SpecSelection: the selected layers under the operations that remove layers
\* ------------------------------------------------------------------------
\* screen (625, 500) is over the uploaded image, (100, 100) over empty canvas
SelectionTools == {"move", "eraser"}
SelectionPoints == {<<625, 500>>}
SelectionPrompts == {"a prompt"}
MaxSelectionIds == 2
MaxRedo == 1
CanStartSelection == gens = <<>> /\ nextId <= MaxSelectionIds

NextSelection ==
    \/ \E sz \in UploadSizes :
          /\ uploads = <<>> /\ nextId <= MaxSelectionIds
          /\ handleImageUpload(sz[1], sz[2])
    \/ UploadLoads
    \/ \E t \in SelectionTools : pointer = "up" /\ SetTool(t)
    \/ \E p \in SelectionPoints : MouseDown(p, 0)
    \/ MouseUp
    \/ Len(redoStack) < MaxRedo /\ handleUndo
    \/ handleRedo
    \/ \E id \in LayerIds(layers) : handleDeleteLayer(id)
    \/ \E ls \in ProjectLayers : handleLoadProject(ls, 1, NULL)
    \/ \E p \in SelectionPoints : DoubleClick(p)
    \/ \E text \in SelectionPrompts : SetPrompt(text)
    \/ CanStartSelection /\ ClickGenerate
    \/ GenerationStep

SpecSelection == Init /\ [][NextSelection]_vars

\* C34: every selected id is the id of a layer in the layer list
C34_SelectedLayersExist == selectedLayerIds \subseteq LayerIds(layers)

\* ------------------------------------------------------------------------
\* SpecOrder: the layer list under the layer panel's reorder and move
\* ------------------------------------------------------------------------
\* a project of three layers, and the indices and ids the panel can pass:
\* every index of the list, one past each end and beyond
OrderLayers ==
    <<Layer(3, "image", R(1800), R(1900), R(400), R(200)),
      Layer(2, "image", R(1800), R(1900), R(400), R(200)),
      Layer(1, "image", R(1800), R(1900), R(400), R(200))>>
OrderProjects == ProjectLayers \cup {OrderLayers}
OrderIndices == -4..4
OrderIds == 1..4
Directions == {"up", "down"}

\* a list that holds undefined makes the next render throw on l.id
NextOrder ==
    \/ \E ls \in OrderProjects : HasNoUndefined(layers) /\ handleLoadProject(ls, 1, NULL)
    \/ \E id \in LayerIds(layers), field \in {"visible", "locked"} :
          HasNoUndefined(layers) /\ handleUpdateLayer(id, field)
    \/ \E fromIndex \in OrderIndices, toIndex \in OrderIndices :
          HasNoUndefined(layers) /\ handleReorderLayers(fromIndex, toIndex)
    \/ \E id \in OrderIds, direction \in Directions :
          HasNoUndefined(layers) /\ handleMoveLayer(id, direction)

SpecOrder == Init /\ [][NextOrder]_vars

\* b holds the entries of a, each once, and nothing else
IsPermutation(a, b) ==
    /\ Len(a) = Len(b)
    /\ \A k \in 1..Len(a) : \E j \in 1..Len(b) : b[j] = a[k]

\* C35: handleReorderLayers and handleMoveLayer produce a permutation of the
\* previous list for all indices, ids and directions; moving the first
\* layer up or the last layer down leaves the list as it is
C35_ReorderIsPermutation ==
    [][/\ lastOp' \in {"handleReorderLayers", "handleMoveLayer"}
          => IsPermutation(layers, layers')
       /\ \A id \in OrderIds :
             /\ (handleMoveLayer(id, "up") /\ FindIndex(layers, id) = 0)
                => layers' = layers
             /\ (handleMoveLayer(id, "down") /\ FindIndex(layers, id) = Len(layers) - 1)
                => layers' = layers]_vars

\* ------------------------------------------------------------------------
\* SpecProvision: the first calls of a user who has no document yet
\* ------------------------------------------------------------------------
InitProvision ==
    /\ InitCanvas([innerWidth |-> 1250, innerHeight |-> 1000], <<Res1x1, Res16x9>>)
    /\ InitStudio
    /\ InitStores
    /\ ratioArg = NULL
    /\ ratioKey = "none"
    /\ InitDecor
    /\ InitAutosave
    /\ \E email \in Emails : InitServer(<<>>, email)

NextProvision ==
    \/ \E c \in 1..MaxCalls, authed \in BOOLEAN : getUserCredits(c, authed)
    \/ \E c \in 1..MaxCalls, authed \in BOOLEAN : generateImage(c, authed)
    \/ \E c \in 1..MaxCalls, authed \in BOOLEAN : generateVideo(c, authed)
    \/ \E c \in 1..MaxCalls : ensureUserDocGet(c)
    \/ \E c \in 1..MaxCalls : ensureUserDocSet(c)
    \/ \E c \in 1..MaxCalls : deductCredits(c)
    \/ \E c \in 1..MaxCalls : \E reply \in Replies(calls[c].fn) : CallBody(c, reply)
    \/ \E c \in 1..MaxCalls : RefundCredits(c)

SpecProvision == InitProvision /\ [][NextProvision]_vars

\* the credits a new user is provisioned with
InitialCredits == IF authEmail = SPECIAL_EMAIL THEN SPECIAL_CREDITS ELSE 0

\* the cost of the calls that were charged, less what was refunded
RECURSIVE Charged(_)
Charged(n) ==
    IF n = 0 THEN 0
    ELSE Charged(n - 1)
         + (IF calls[n].deducted THEN calls[n].cost ELSE 0)
         - calls[n].refunds * calls[n].cost

\* C36: once the document of a new user exists, its balance is the initial
\* credits less the cost of every call charged and not refunded, under any
\* interleaving of the first calls
C36_ProvisioningKeepsBalance ==
    userDoc # <<>> => userDoc[1] = InitialCredits - Charged(MaxCalls)

\* ------------------------------------------------------------------------
\* SpecSceneLive: the scene generations, with the steps that are bound to
\* happen (image events, replies, the timers of extractLastFrame and of the
\* pause)
\* ------------------------------------------------------------------------
\* what one invocation of SceneRow.handleGenerate does next
SceneStep(g) ==
    /\ g <= Len(sceneGens)
    /\ \/ ScenePrepared(g)
       \/ SceneFrameFails(g)
       \/ \E outcome \in Outcomes : SceneCallReturns(g, outcome)
       \/ \E ok \in BOOLEAN : SceneFrameExtracted(g, ok)
       \/ ScenePauseOver(g)

LiveShotPrompts == {"a shot"}

NextSceneLive ==
    \/ \E k \in 1..Len(scenes) : Quiet /\ scenes[k].startFrame = NULL /\ SetStartFrame(k)
    \/ \E text \in LiveShotPrompts : Quiet /\ SetShotPrompt(EditedScene, 1, text)
    \/ \E n \in SceneVariations : Quiet /\ SetSceneVariationCount(EditedScene, n)
    \/ \E k \in 1..Len(scenes) : CanGenerateScene(k) /\ ClickSceneGenerate(k)
    \/ \E g \in 1..MaxSceneGens : SceneStep(g)

SpecSceneLive ==
    Init /\ [][NextSceneLive]_vars /\ \A g \in 1..MaxSceneGens : WF_vars(SceneStep(g))

Generating(id) == \E k \in 1..Len(scenes) : scenes[k].id = id /\ scenes[k].isGenerating

\* C37: a scene whose isGenerating flag is true eventually has it false again
C37_SceneGenerationEnds ==
    \A id \in 1..(MaxVideos + 1) : Generating(id) ~> ~Generating(id)

\* ------------------------------------------------------------------------
\* SpecExportLive: the movie export, with the media events and the recorder
\* steps that are bound to happen
\* ------------------------------------------------------------------------
\* what the export in progress does next
ExportStep ==
    \/ \E loaded \in BOOLEAN, ctx \in BOOLEAN : ExportMetadata(loaded, ctx)
    \/ \E loaded \in BOOLEAN : ExportCanPlayThrough(loaded)
    \/ \E started \in BOOLEAN : ExportPlaySettles(started)
    \/ ExportVideoEnded
    \/ ExportRecorderStops

NextExportLive ==
    \/ downloads < MaxDownloads /\ handleExportFullMovie
    \/ ExportStep

SpecExportLive == InitExport /\ [][NextExportLive]_vars /\ WF_vars(ExportStep)

\* C38: an export that set isExporting to true eventually sets it to false
C38_ExportEnds == isExporting ~> ~isExporting

\* ------------------------------------------------------------------------
\* SpecScenes: the scene list under add, delete, chaining, new canvas and
\* project loads
\* ------------------------------------------------------------------------
\* the scenes argument of handleLoadProject: absent (a project saved without
\* scenes or with an empty list), and two stored scenes
SceneProjects == {NULL, <<StoredScene(1, 1, 0), StoredScene(2, 0, -1)>>}
SceneShotPrompts == {"a shot"}

NextScenes ==
    \/ \E k \in 1..Len(scenes) : Quiet /\ scenes[k].startFrame = NULL /\ SetStartFrame(k)
    \/ \E text \in SceneShotPrompts : Quiet /\ SetShotPrompt(EditedScene, 1, text)
    \/ CanAddScene /\ handleAddScene
    \/ \E k \in 1..Len(scenes) : handleDeleteScene(k)
    \/ \E k \in 1..Len(scenes) : CanGenerateScene(k) /\ ClickSceneGenerate(k)
    \/ \E g \in 1..MaxSceneGens : SceneStep(g)
    \/ handleNewCanvas
    \/ \E loadedScenes \in SceneProjects : handleLoadProject(<<>>, 1, loadedScenes)

SpecScenes == Init /\ [][NextScenes]_vars

\* C39: the scene list holds at least one scene
C39_AtLeastOneScene == Len(scenes) >= 1

\* the delete button was pressed on the only scene left, one that was added
\* after the first scene was deleted
C39_Witness ==
    /\ lastOp = "handleDeleteScene" /\ studioHist.outcome = "refused"
    /\ Len(scenes) = 1 /\ scenes[1].id # 1

\* ------------------------------------------------------------------------
\* SpecAutosave: a logged-in user loads projects and adds content; the
\* effect runs after each render and the timeout fires when it is left alone
\* ------------------------------------------------------------------------
\* the projects opened from the history: one without content and one with
\* one image
AutosaveProjects == {<<>>, <<Layer(1, "image", R(1800), R(1900), R(400), R(200))>>}
MaxAutosaveIds == 2
\* the effect has run before the next event is handled
Rendered == ~EffectDue

NextAutosave ==
    \/ Rendered /\ onAuthStateChanged
    \/ \E sz \in UploadSizes :
          /\ Rendered /\ uploads = <<>> /\ nextId <= MaxAutosaveIds
          /\ handleImageUpload(sz[1], sz[2])
    \/ Rendered /\ UploadLoads
    \/ \E k \in 1..Len(scenes) : Rendered /\ scenes[k].startFrame = NULL /\ SetStartFrame(k)
    \/ \E ls \in AutosaveProjects : Rendered /\ user /\ handleLoadProject(ls, 1, NULL)
    \/ AutoSaveEffect
    \/ Rendered /\ doAutoSave

SpecAutosave ==
    Init /\ [][NextAutosave]_vars /\ WF_vars(AutoSaveEffect) /\ WF_vars(Rendered /\ doAutoSave)

\* the user has changed the layers or scenes since the last load or save
Unsaved == user /\ savedContent # NULL /\ <<layers, scenes>> # savedContent

\* C40: the effect that follows a load schedules no autosave, and a change
\* made after a load is saved when it is followed by no further change
C40_ChangesAfterLoadAreSaved ==
    /\ [][(lastOp = "handleLoadProject" /\ lastOp' = "AutoSaveEffect")
            => ~autoSaveTimer']_vars
    /\ Unsaved ~> ~Unsaved

====
